---- MODULE Spec2Model ----
(***************************************************************************)
(* A model of the scalar value layer (datafusion/common/src/scalar.rs),    *)
(* the logical plan builder (datafusion/core/src/logical_plan/builder.rs)  *)
(* and the plan rewrite utility (datafusion/core/src/optimizer/utils.rs).  *)
(*                                                                         *)
(* Conventions.  Option<T> is a sequence of length 0 (None) or 1           *)
(* (Some(x)).  Array indices are 0-based as in the source; slot i of an     *)
(* array is element i+1 of its slot sequence.  An operation that can       *)
(* abort returns a record whose st field is "ok", "err" or "panic".        *)
(***************************************************************************)
EXTENDS Integers, Sequences, FiniteSets, TLC

VARIABLES
    op,      \* scalar layer: the last operation applied ("start" before any)
    a,       \* scalar layer: the scalar `self`
    n,       \* scalar layer: the requested array size
    arr,     \* scalar layer: the outcome of building / choosing an array
    idx,     \* scalar layer: the row index handed to the last row operation
    out,     \* scalar layer: the outcome of the last operation
    plan,    \* plan layer: the plan held by the builder `self`
    other,   \* plan layer: a second plan (join / union operand)
    call,    \* plan layer: the last builder call and its arguments
    ret,     \* plan layer: the outcome of the last builder call
    steps,   \* plan layer: number of returned builders taken over so far
    built    \* plan layer: what self.build() returned when `self` was obtained

scalarVars == <<op, a, n, arr, idx, out>>
planVars == <<plan, other, call, ret, steps, built>>
vars == <<op, a, n, arr, idx, out, plan, other, call, ret, steps, built>>

None == <<>>
Some(x) == <<x>>
IsSome(o) == Len(o) = 1
IsNone(o) == Len(o) = 0

Ok(x) == [st |-> "ok", val |-> x]
Err(msg) == [st |-> "err", msg |-> msg]
Panic(msg) == [st |-> "panic", msg |-> msg]
IsOk(r) == r.st = "ok"
\* `r?` followed by F: the failure of r, or F of its value
AndThen(r, F(_)) == IF IsOk(r) THEN F(r.val) ELSE r
\* `match r { Ok(v) => F(v), Err(_) => d }`
OrElse(r, F(_), d) == IF IsOk(r) THEN F(r.val) ELSE d

(***************************************************************************)
(* arrow DataType, as far as the scalar layer names it.                    *)
(***************************************************************************)
DT(k) == [k |-> k]
DTDecimal(p, s) == [k |-> "Decimal", p |-> p, s |-> s]
DTTimestamp(unit, tz) == [k |-> "Timestamp", unit |-> unit, tz |-> tz]
DTInterval(unit) == [k |-> "Interval", unit |-> unit]
Field(name, dt, nullable) == [name |-> name, dt |-> dt, nullable |-> nullable]
DTList(elem) == [k |-> "List", field |-> Field("item", elem, TRUE)]
DTFixedSizeList(elem, len) == [k |-> "FixedSizeList", field |-> Field("item", elem, TRUE), len |-> len]
DTStruct(fields) == [k |-> "Struct", fields |-> fields]
DTDictionary(key, val) == [k |-> "Dictionary", key |-> key, val |-> val]

DECIMAL_MAX_PRECISION == 38

(***************************************************************************)
(* ScalarValue: one constructor per enum variant.                          *)
(***************************************************************************)
SimpleTags ==
    {"Boolean", "Float32", "Float64", "Int8", "Int16", "Int32", "Int64",
     "UInt8", "UInt16", "UInt32", "UInt64", "Utf8", "LargeUtf8", "Binary",
     "LargeBinary", "Date32", "Date64", "IntervalYearMonth",
     "IntervalDayTime", "IntervalMonthDayNano"}
TimestampTags ==
    {"TimestampSecond", "TimestampMillisecond", "TimestampMicrosecond",
     "TimestampNanosecond"}
FloatTags == {"Float32", "Float64"}

SNull == [tag |-> "Null"]
Simple(tag, v) == [tag |-> tag, v |-> v]
Decimal128(v, p, s) == [tag |-> "Decimal128", v |-> v, p |-> p, s |-> s]
Timestamp(tag, v, tz) == [tag |-> tag, v |-> v, tz |-> tz]
SList(v, ty) == [tag |-> "List", v |-> v, ty |-> ty]
SStruct(v, fields) == [tag |-> "Struct", v |-> v, fields |-> fields]

(***************************************************************************)
(* f32/f64 payloads are named bit patterns.  OrderedFloat equates all NaN  *)
(* patterns and compares the rest as IEEE does (so -0.0 = +0.0); its hash  *)
(* feeds one canonical NaN and one canonical zero.                         *)
(***************************************************************************)
NaNs == {"NaN", "-NaN"}
Zeros == {"+0.0", "-0.0"}
IeeeEq(x, y) == x \notin NaNs /\ y \notin NaNs /\ (x = y \/ (x \in Zeros /\ y \in Zeros))
OrderedFloatEq(x, y) == IF x \in NaNs THEN y \in NaNs ELSE IeeeEq(x, y)
OrderedFloatBits(x) == IF x \in NaNs THEN "NaN" ELSE IF x \in Zeros THEN "+0.0" ELSE x
OptOrderedFloatEq(v1, v2) ==
    IF IsSome(v1) /\ IsSome(v2) THEN OrderedFloatEq(v1[1], v2[1]) ELSE IsNone(v1) /\ IsNone(v2)

RECURSIVE ScalarEq(_, _)
OptVecEq(v1, v2) ==
    IF IsSome(v1) /\ IsSome(v2)
    THEN /\ Len(v1[1]) = Len(v2[1])
         /\ \A i \in 1..Len(v1[1]) : ScalarEq(v1[1][i], v2[1][i])
    ELSE IsNone(v1) /\ IsNone(v2)

ScalarEq(x, y) ==
    IF x.tag # y.tag THEN FALSE
    ELSE CASE x.tag = "Null" -> TRUE
           [] x.tag = "Decimal128" -> x.v = y.v /\ x.p = y.p /\ x.s = y.s
           [] x.tag \in FloatTags -> OptOrderedFloatEq(x.v, y.v)
           [] x.tag \in TimestampTags -> x.v = y.v
           [] x.tag = "List" -> OptVecEq(x.v, y.v) /\ x.ty = y.ty
           [] x.tag = "Struct" -> OptVecEq(x.v, y.v) /\ x.fields = y.fields
           [] OTHER -> x.v = y.v

(***************************************************************************)
(* PartialOrd: partial_cmp yields None (incomparable) or Some(ordering).   *)
(* Option payloads order None before Some; vectors order                   *)
(* lexicographically, stopping at the first pair that is not Equal.        *)
(***************************************************************************)
StringKinds == {"Utf8", "LargeUtf8", "Binary", "LargeBinary"}
PayloadStrings == <<"a", "x">>

CmpInt(x, y) == IF x < y THEN "Less" ELSE IF x = y THEN "Equal" ELSE "Greater"
CmpBool(x, y) == CmpInt(IF x THEN 1 ELSE 0, IF y THEN 1 ELSE 0)
StringRank(x) == CHOOSE i \in 1..Len(PayloadStrings) : PayloadStrings[i] = x
\* OrderedFloat: NaN equals NaN and is greater than every number; -0.0 equals +0.0
FloatRank(x) ==
    CASE x \in NaNs -> 2
      [] x \in Zeros -> 0
      [] x = "1.5" -> 1
      [] x = "-1.5" -> -1
CmpNative(tag, x, y) ==
    CASE tag = "Boolean" -> CmpBool(x, y)
      [] tag \in FloatTags -> CmpInt(FloatRank(x), FloatRank(y))
      [] tag \in StringKinds -> CmpInt(StringRank(x), StringRank(y))
      [] OTHER -> CmpInt(x, y)
CmpOptionMutant(tag, v1, v2) ==
    IF IsSome(v1) /\ IsSome(v2) THEN Some(CmpNative(tag, v1[1], v2[1]))
    ELSE Some(CmpInt(Len(v2), Len(v1)))
\* Option<T>::partial_cmp for a native payload
CmpOption(tag, v1, v2) ==
    IF IsSome(v1) /\ IsSome(v2) THEN Some(CmpNative(tag, v1[1], v2[1]))
    ELSE Some(CmpInt(Len(v1), Len(v2)))

DecimalComparableMutant(x, y) == TRUE
\* the condition under which two Decimal128 scalars are compared by value
DecimalComparable(x, y) == x.p = y.p /\ x.s = y.s

RECURSIVE partial_cmp(_, _)
RECURSIVE CmpVec(_, _, _)
\* [ScalarValue]::partial_cmp from position i on
CmpVec(xs, ys, i) ==
    IF i > Len(xs) \/ i > Len(ys) THEN Some(CmpInt(Len(xs), Len(ys)))
    ELSE IF partial_cmp(xs[i], ys[i]) = Some("Equal") THEN CmpVec(xs, ys, i + 1)
         ELSE partial_cmp(xs[i], ys[i])
CmpOptionVec(v1, v2) ==
    IF IsSome(v1) /\ IsSome(v2) THEN CmpVec(v1[1], v2[1], 1)
    ELSE Some(CmpInt(Len(v1), Len(v2)))

partial_cmp(x, y) ==
    IF x.tag # y.tag THEN None
    ELSE CASE x.tag = "Null" -> Some("Equal")
           [] x.tag = "Decimal128" ->
                IF DecimalComparable(x, y) THEN CmpOption(x.tag, x.v, y.v) ELSE None
           [] x.tag = "List" -> IF x.ty = y.ty THEN CmpOptionVec(x.v, y.v) ELSE None
           [] x.tag = "Struct" -> IF x.fields = y.fields THEN CmpOptionVec(x.v, y.v) ELSE None
           [] OTHER -> CmpOption(x.tag, x.v, y.v)

(***************************************************************************)
(* Hash: the sequence of values a scalar feeds to the hasher.              *)
(***************************************************************************)
HInt(i) == [h |-> "int", i |-> i]
HVal(x) == [h |-> "val", x |-> <<x>>]
HFloat(x) == [h |-> "float", s |-> OrderedFloatBits(x)]
HType(t) == [h |-> "type", t |-> t]
HFields(fs) == [h |-> "fields", fs |-> fs]

RECURSIVE SeqConcat(_)
SeqConcat(ss) == IF ss = <<>> THEN <<>> ELSE Head(ss) \o SeqConcat(Tail(ss))

HashOpt(v) == IF IsSome(v) THEN <<HInt(1), HVal(v[1])>> ELSE <<HInt(0)>>
HashOptFloat(v) == IF IsSome(v) THEN <<HInt(1), HFloat(v[1])>> ELSE <<HInt(0)>>

RECURSIVE HashSeq(_)
HashOptVec(v) ==
    IF IsSome(v)
    THEN <<HInt(1), HInt(Len(v[1]))>> \o SeqConcat([i \in 1..Len(v[1]) |-> HashSeq(v[1][i])])
    ELSE <<HInt(0)>>

HashTimestampMutant(x) == HashOpt(x.v) \o HashOpt(x.tz)
HashTimestamp(x) == HashOpt(x.v)

HashSeq(x) ==
    CASE x.tag = "Null" -> <<HInt(1)>>
      [] x.tag = "Decimal128" -> HashOpt(x.v) \o <<HInt(x.p), HInt(x.s)>>
      [] x.tag \in FloatTags -> HashOptFloat(x.v)
      [] x.tag \in TimestampTags -> HashTimestamp(x)
      [] x.tag = "List" -> HashOptVec(x.v) \o <<HType(x.ty)>>
      [] x.tag = "Struct" -> HashOptVec(x.v) \o <<HFields(x.fields)>>
      [] OTHER -> HashOpt(x.v)

(***************************************************************************)
(* try_new_decimal128                                                      *)
(***************************************************************************)
DecimalParamsValidMutant(precision, scale) ==
    precision < DECIMAL_MAX_PRECISION /\ scale <= precision
DecimalParamsValid(precision, scale) ==
    precision <= DECIMAL_MAX_PRECISION /\ scale <= precision

try_new_decimal128(value, precision, scale) ==
    IF DecimalParamsValid(precision, scale)
    THEN Ok(Decimal128(Some(value), precision, scale))
    ELSE Err("Can not new a decimal type ScalarValue")

(***************************************************************************)
(* get_datatype and the typed null of a DataType (TryFrom<&DataType>).     *)
(***************************************************************************)
TimeUnitOf(tag) ==
    CASE tag = "TimestampSecond" -> "Second"
      [] tag = "TimestampMillisecond" -> "Millisecond"
      [] tag = "TimestampMicrosecond" -> "Microsecond"
      [] tag = "TimestampNanosecond" -> "Nanosecond"

TimestampTagOf(unit) ==
    CASE unit = "Second" -> "TimestampSecond"
      [] unit = "Millisecond" -> "TimestampMillisecond"
      [] unit = "Microsecond" -> "TimestampMicrosecond"
      [] unit = "Nanosecond" -> "TimestampNanosecond"

IntervalTagOf(unit) ==
    CASE unit = "YearMonth" -> "IntervalYearMonth"
      [] unit = "DayTime" -> "IntervalDayTime"
      [] unit = "MonthDayNano" -> "IntervalMonthDayNano"

get_datatype(x) ==
    CASE x.tag = "Null" -> DT("Null")
      [] x.tag = "Decimal128" -> DTDecimal(x.p, x.s)
      [] x.tag \in TimestampTags -> DTTimestamp(TimeUnitOf(x.tag), x.tz)
      [] x.tag = "List" -> DTList(x.ty)
      [] x.tag = "Struct" -> DTStruct(x.fields)
      [] x.tag = "IntervalYearMonth" -> DTInterval("YearMonth")
      [] x.tag = "IntervalDayTime" -> DTInterval("DayTime")
      [] x.tag = "IntervalMonthDayNano" -> DTInterval("MonthDayNano")
      [] OTHER -> DT(x.tag)

TryFromSimpleKinds ==
    {"Boolean", "Float64", "Float32", "Int8", "Int16", "Int32", "Int64",
     "UInt8", "UInt16", "UInt32", "UInt64", "Utf8", "LargeUtf8", "Date32",
     "Date64"}

RECURSIVE TryFromDataType(_)
TryFromDataType(dt) ==
    CASE dt.k \in TryFromSimpleKinds -> Ok(Simple(dt.k, None))
      [] dt.k = "Decimal" -> Ok(Decimal128(None, dt.p, dt.s))
      [] dt.k = "Timestamp" -> Ok(Timestamp(TimestampTagOf(dt.unit), None, dt.tz))
      [] dt.k = "Dictionary" -> TryFromDataType(dt.val)
      [] dt.k = "List" -> Ok(SList(None, dt.field.dt))
      [] dt.k = "Struct" -> Ok(SStruct(None, dt.fields))
      [] dt.k = "Null" -> Ok(SNull)
      [] OTHER -> Err("Can't create a scalar from data_type")

(***************************************************************************)
(* Columnar arrays (the arrow adapter).  A primitive, string, binary,      *)
(* decimal, temporal or null array is [dt, slots] with one Option payload  *)
(* per slot; a list array has an Option child array per slot; a struct     *)
(* array is [dt, valid, cols]; a dictionary array is [dt, keys, values].   *)
(***************************************************************************)
Repeat(x, k) == [i \in 1..k |-> x]
Arr(dt, slots) == [dt |-> dt, slots |-> slots]
ArrStruct(dt, valid, cols) == [dt |-> dt, valid |-> valid, cols |-> cols]
ArrDict(dt, keys, values) == [dt |-> dt, keys |-> keys, values |-> values]

ArrLen(x) ==
    CASE x.dt.k = "Struct" -> Len(x.valid)
      [] x.dt.k = "Dictionary" -> Len(x.keys)
      [] OTHER -> Len(x.slots)

is_valid(x, i) ==
    CASE x.dt.k = "Struct" -> x.valid[i + 1]
      [] x.dt.k = "Dictionary" -> IsSome(x.keys[i + 1])
      [] OTHER -> IsSome(x.slots[i + 1])

RECURSIVE new_null_array(_, _)
new_null_array(dt, size) ==
    CASE dt.k = "Struct" ->
            ArrStruct(dt, Repeat(FALSE, size),
                      [c \in 1..Len(dt.fields) |-> new_null_array(dt.fields[c].dt, size)])
      [] dt.k = "Dictionary" -> ArrDict(dt, Repeat(None, size), new_null_array(dt.val, 0))
      [] OTHER -> Arr(dt, Repeat(None, size))

\* StructArray::from(Vec<(Field, ArrayRef)>): no validity bitmap, so every slot is valid
StructArrayFrom(fields, cols) ==
    ArrStruct(DTStruct(fields),
              Repeat(TRUE, IF Len(cols) = 0 THEN 0 ELSE ArrLen(cols[1])), cols)

FirstBad(rs) == CHOOSE i \in 1..Len(rs) : ~IsOk(rs[i]) /\ \A j \in 1..(i - 1) : IsOk(rs[j])
AllOk(rs) == \A i \in 1..Len(rs) : IsOk(rs[i])
Vals(rs) == [i \in 1..Len(rs) |-> rs[i].val]
\* collect::<Result<Vec<_>>>(): every value, or the first failure
Collect(rs) == IF AllOk(rs) THEN Ok(Vals(rs)) ELSE rs[FirstBad(rs)]

(***************************************************************************)
(* iter_to_array                                                           *)
(***************************************************************************)
PrimitiveArrayKinds ==
    {"Boolean", "Float32", "Float64", "Int8", "Int16", "Int32", "Int64",
     "UInt8", "UInt16", "UInt32", "UInt64", "Utf8", "LargeUtf8", "Binary",
     "LargeBinary", "Date32", "Date64"}
ListPrimitiveKinds ==
    {"Int8", "Int16", "Int32", "Int64", "UInt8", "UInt16", "UInt32", "UInt64",
     "Float32", "Float64"}
ListStringKinds == {"Utf8", "LargeUtf8"}

\* build_array_primitive! / build_array_primitive_tz! / build_array_string!:
\* collect() into the array type of the variant, whose data type carries no timezone
build_array_primitive(scalars, tag, dt) ==
    IF \A i \in 1..Len(scalars) : scalars[i].tag = tag
    THEN Ok(Arr(dt, [i \in 1..Len(scalars) |-> scalars[i].v]))
    ELSE Err("Inconsistent types in ScalarValue::iter_to_array")

iter_to_null_array(scalars) ==
    IF \A i \in 1..Len(scalars) : scalars[i].tag = "Null"
    THEN Ok(Arr(DT("Null"), Repeat(None, Len(scalars))))
    ELSE Panic("unreachable")

iter_to_decimal_array(scalars, precision, scale) ==
    IF \E i \in 1..Len(scalars) : scalars[i].tag # "Decimal128"
    THEN Panic("unreachable")
    ELSE IF precision <= DECIMAL_MAX_PRECISION /\ scale <= precision
         THEN Ok(Arr(DTDecimal(precision, scale), [i \in 1..Len(scalars) |-> scalars[i].v]))
         ELSE Err("with_precision_and_scale")

ListRowOk(x, tag) ==
    /\ x.tag = "List"
    /\ IsSome(x.v) => \A j \in 1..Len(x.v[1]) : x.v[1][j].tag = tag

ListRowSlot(x, tag) ==
    IF IsSome(x.v)
    THEN Some(Arr(DT(tag), [j \in 1..Len(x.v[1]) |-> x.v[1][j].v]))
    ELSE None

build_array_list_primitive(scalars, tag) ==
    IF \A i \in 1..Len(scalars) : ListRowOk(scalars[i], tag)
    THEN Ok(Arr(DTList(DT(tag)), [i \in 1..Len(scalars) |-> ListRowSlot(scalars[i], tag)]))
    ELSE Panic("Inconsistent types in ScalarValue::iter_to_array")

build_array_list_string(scalars, tag) ==
    IF \A i \in 1..Len(scalars) : ListRowOk(scalars[i], tag)
    THEN Ok(Arr(DTList(DT(tag)), [i \in 1..Len(scalars) |-> ListRowSlot(scalars[i], tag)]))
    ELSE Err("Inconsistent types in ScalarValue::iter_to_array")

\* one struct row of iter_to_array: the scalars it pushes onto the columns
StructRow(x, ncols) ==
    IF x.tag # "Struct" THEN Err("Expected Struct")
    ELSE IF IsSome(x.v)
         THEN IF Len(x.v[1]) < ncols THEN Panic("index out of bounds")
              ELSE Ok(SubSeq(x.v[1], 1, ncols))
         ELSE IF Len(x.fields) < ncols THEN Panic("index out of bounds")
              ELSE LET nulls == [c \in 1..ncols |-> TryFromDataType(x.fields[c].dt)] IN
                   IF AllOk(nulls) THEN Ok(Vals(nulls)) ELSE nulls[FirstBad(nulls)]

RECURSIVE iter_to_array(_)
iter_to_array_list(scalars, data_type) ==
    LET rows == [i \in 1..Len(scalars) |->
                    IF scalars[i].tag # "List" THEN Err("Expected ScalarValue::List element")
                    ELSE IF IsSome(scalars[i].v)
                         THEN LET e == iter_to_array(scalars[i].v[1]) IN
                              IF IsOk(e) THEN Ok(Some(e.val)) ELSE e
                         ELSE Ok(None)]
    IN  IF ~AllOk(rows) THEN rows[FirstBad(rows)]
        ELSE LET elements == SelectSeq(Vals(rows), IsSome) IN
             IF Len(elements) = 0 THEN Err("concat requires input of at least one array")
             ELSE IF \E i \in 1..Len(elements) : elements[i][1].dt # elements[1][1].dt
                  THEN Err("concat of arrays of different types")
                  ELSE IF elements[1][1].dt # data_type.field.dt
                       THEN Err("child array type differs from the list's field type")
                       ELSE Ok(Arr(data_type, Vals(rows)))

iter_to_array(scalars) ==
    IF Len(scalars) = 0 THEN Err("Empty iterator passed to ScalarValue::iter_to_array")
    ELSE LET data_type == get_datatype(scalars[1]) IN
         CASE data_type.k = "Decimal" -> iter_to_decimal_array(scalars, data_type.p, data_type.s)
           [] data_type.k = "Null" -> iter_to_null_array(scalars)
           [] data_type.k \in PrimitiveArrayKinds ->
                build_array_primitive(scalars, data_type.k, DT(data_type.k))
           [] data_type.k = "Timestamp" ->
                build_array_primitive(scalars, TimestampTagOf(data_type.unit),
                                      DTTimestamp(data_type.unit, None))
           [] data_type.k = "Interval" /\ data_type.unit \in {"DayTime", "YearMonth"} ->
                build_array_primitive(scalars, IntervalTagOf(data_type.unit), data_type)
           [] data_type.k = "List" /\ data_type.field.dt.k \in ListPrimitiveKinds ->
                build_array_list_primitive(scalars, data_type.field.dt.k)
           [] data_type.k = "List" /\ data_type.field.dt.k \in ListStringKinds ->
                build_array_list_string(scalars, data_type.field.dt.k)
           [] data_type.k = "List" /\ data_type.field.dt.k \notin (ListPrimitiveKinds \cup ListStringKinds) ->
                iter_to_array_list(scalars, data_type)
           [] data_type.k = "Struct" ->
                LET fields == data_type.fields
                    rows == [i \in 1..Len(scalars) |-> StructRow(scalars[i], Len(fields))]
                IN  IF ~AllOk(rows) THEN rows[FirstBad(rows)]
                    ELSE LET cols == [c \in 1..Len(fields) |->
                                         iter_to_array([i \in 1..Len(scalars) |-> rows[i].val[c]])]
                         IN  IF AllOk(cols) THEN Ok(StructArrayFrom(fields, Vals(cols)))
                             ELSE cols[FirstBad(cols)]
           [] OTHER -> Err("Unsupported creation of array from ScalarValue")

(***************************************************************************)
(* to_array_of_size                                                        *)
(***************************************************************************)
BuildListKinds ==
    {"Boolean", "Int8", "Int16", "Int32", "Int64", "UInt8", "UInt16", "UInt32",
     "UInt64", "Utf8", "Float32", "Float64", "LargeUtf8"}

\* build_values_list! / build_values_list_tz!: a ListBuilder over the value builder
\* of variant `tag`; the list's field type is the builder's (dt)
build_values_list(tag, dt, values, size) ==
    IF size > 0 /\ \E j \in 1..Len(values) : values[j].tag # tag
    THEN Panic("Incompatible ScalarValue for list")
    ELSE Ok(Arr(DTList(dt),
                Repeat(Some(Arr(dt, [j \in 1..Len(values) |-> values[j].v])), size)))

\* build_list!
build_list(tag, values, size) ==
    IF IsNone(values) THEN Ok(new_null_array(DTList(DT(tag)), size))
    ELSE build_values_list(tag, DT(tag), values[1], size)

\* the value builder build_timestamp_list! picks for a time unit
TimestampListBuilderUnit(unit) ==
    CASE unit = "Second" -> "Second"
      [] unit = "Microsecond" -> "Millisecond"
      [] unit = "Millisecond" -> "Microsecond"
      [] unit = "Nanosecond" -> "Nanosecond"

build_timestamp_list(unit, tz, values, size) ==
    IF IsNone(values) THEN Ok(new_null_array(DTList(DTTimestamp(unit, tz)), size))
    ELSE LET bu == TimestampListBuilderUnit(unit) IN
         build_values_list(TimestampTagOf(bu), DTTimestamp(bu, None), values[1], size)

\* build_array_from_option!, from_iter_values, collect: `size` copies of the payload
build_array_from_option(dt, e, size) ==
    IF IsSome(e) THEN Arr(dt, Repeat(e, size)) ELSE new_null_array(dt, size)

build_decimal_array(value, precision, scale, size) ==
    IF precision <= DECIMAL_MAX_PRECISION /\ scale <= precision
    THEN Ok(Arr(DTDecimal(precision, scale), Repeat(value, size)))
    ELSE Panic("with_precision_and_scale(..).unwrap()")

RECURSIVE to_array_of_size(_, _)
to_array_of_size(x, size) ==
    CASE x.tag = "Decimal128" -> build_decimal_array(x.v, x.p, x.s, size)
      [] x.tag \in TimestampTags ->
            Ok(build_array_from_option(DTTimestamp(TimeUnitOf(x.tag), x.tz), x.v, size))
      [] x.tag = "List" ->
            (CASE x.ty.k \in BuildListKinds -> build_list(x.ty.k, x.v, size)
               [] x.ty.k = "Timestamp" -> build_timestamp_list(x.ty.unit, x.ty.tz, x.v, size)
               [] OTHER ->
                    LET r == iter_to_array_list(Repeat(x, size), DTList(x.ty)) IN
                    IF IsOk(r) THEN r ELSE Panic("iter_to_array_list(..).unwrap()"))
      [] x.tag = "Struct" ->
            IF IsSome(x.v)
            THEN LET k == IF Len(x.fields) < Len(x.v[1]) THEN Len(x.fields) ELSE Len(x.v[1])
                     cols == [c \in 1..k |-> to_array_of_size(x.v[1][c], size)]
                 IN  IF AllOk(cols)
                     THEN Ok(StructArrayFrom(SubSeq(x.fields, 1, k), Vals(cols)))
                     ELSE Panic(cols[FirstBad(cols)].msg)
            ELSE LET nulls == [c \in 1..Len(x.fields) |-> TryFromDataType(x.fields[c].dt)] IN
                 IF ~AllOk(nulls)
                 THEN Panic("Failed to construct null ScalarValue from Struct field type")
                 ELSE LET cols == [c \in 1..Len(x.fields) |-> to_array_of_size(nulls[c].val, size)] IN
                      IF AllOk(cols) THEN Ok(StructArrayFrom(x.fields, Vals(cols)))
                      ELSE Panic(cols[FirstBad(cols)].msg)
      [] x.tag = "Null" -> Ok(new_null_array(DT("Null"), size))
      [] OTHER -> Ok(build_array_from_option(get_datatype(x), x.v, size))

(***************************************************************************)
(* try_from_array                                                          *)
(***************************************************************************)
TypedCastKinds ==
    {"Boolean", "Float64", "Float32", "UInt64", "UInt32", "UInt16", "UInt8",
     "Int64", "Int32", "Int16", "Int8", "Binary", "LargeBinary", "Utf8",
     "LargeUtf8", "Date32", "Date64"}
DictionaryKeyKinds ==
    {"Int8", "Int16", "Int32", "Int64", "UInt8", "UInt16", "UInt32", "UInt64"}

RECURSIVE try_from_array(_, _)
try_from_array(array, index) ==
    IF ~is_valid(array, index) THEN TryFromDataType(array.dt)
    ELSE LET dt == array.dt IN
         CASE dt.k = "Null" -> Ok(SNull)
           [] dt.k = "Decimal" -> Ok(Decimal128(array.slots[index + 1], dt.p, dt.s))
           [] dt.k \in TypedCastKinds -> Ok(Simple(dt.k, array.slots[index + 1]))
           [] dt.k \in {"List", "FixedSizeList"} ->
                LET nested_array == array.slots[index + 1][1]
                    scalar_vec == [i \in 1..ArrLen(nested_array) |-> try_from_array(nested_array, i - 1)]
                IN  IF AllOk(scalar_vec) THEN Ok(SList(Some(Vals(scalar_vec)), dt.field.dt))
                    ELSE scalar_vec[FirstBad(scalar_vec)]
           [] dt.k = "Timestamp" ->
                Ok(Timestamp(TimestampTagOf(dt.unit), array.slots[index + 1], dt.tz))
           [] dt.k = "Dictionary" ->
                IF dt.key.k \notin DictionaryKeyKinds
                THEN Err("Index type not supported while creating scalar from dictionary")
                ELSE try_from_array(array.values, array.keys[index + 1][1])
           [] dt.k = "Struct" ->
                LET field_values == [c \in 1..Len(array.cols) |-> try_from_array(array.cols[c], index)] IN
                IF AllOk(field_values) THEN Ok(SStruct(Some(Vals(field_values)), dt.fields))
                ELSE field_values[FirstBad(field_values)]
           [] OTHER -> Err("Can't create a scalar from array of type")

(***************************************************************************)
(* is_null, eq_array                                                       *)
(***************************************************************************)
IsNullKinds ==
    {"Boolean", "UInt8", "UInt16", "UInt32", "UInt64", "Int8", "Int16", "Int32",
     "Int64", "Float32", "Float64", "Date32", "Date64", "Utf8", "LargeUtf8",
     "List", "TimestampSecond", "TimestampMillisecond", "TimestampMicrosecond",
     "TimestampNanosecond", "Struct", "Decimal128"}

is_null(x) == x.tag = "Null" \/ (x.tag \in IsNullKinds /\ IsNone(x.v))

(***************************************************************************)
(* arithmetic_negate.  `-v` on a signed integer overflows at the minimum   *)
(* of its width: a build with overflow checks aborts there, a build        *)
(* without them wraps around to the minimum again.                         *)
(***************************************************************************)
NegateNullKinds == {"Boolean", "Int8", "Int16", "Int32", "Int64", "Float32"}
SignedIntKinds == {"Int8", "Int16", "Int32", "Int64"}

\* the minimum of a signed width, for the widths whose minimum the value range holds
IsIntMin(tag, v) ==
    CASE tag = "Int8" -> v = -128
      [] tag = "Int16" -> v = -32768
      [] tag = "Int32" -> v = -2147483647 - 1
      [] OTHER -> FALSE

FloatNeg(x) ==
    CASE x = "NaN" -> "-NaN"
      [] x = "-NaN" -> "NaN"
      [] x = "+0.0" -> "-0.0"
      [] x = "-0.0" -> "+0.0"
      [] x = "1.5" -> "-1.5"
      [] x = "-1.5" -> "1.5"

arithmetic_negate(x, overflow_checks) ==
    CASE x.tag \in NegateNullKinds /\ IsNone(x.v) -> Ok(x)
      [] x.tag \in FloatTags /\ IsSome(x.v) -> Ok(Simple(x.tag, Some(FloatNeg(x.v[1]))))
      [] x.tag \in SignedIntKinds /\ IsSome(x.v) ->
            IF IsIntMin(x.tag, x.v[1])
            THEN IF overflow_checks THEN Panic("attempt to negate with overflow") ELSE Ok(x)
            ELSE Ok(Simple(x.tag, Some(-x.v[1])))
      [] x.tag = "Decimal128" /\ IsSome(x.v) -> Ok(Decimal128(Some(-x.v[1]), x.p, x.s))
      [] OTHER -> Panic("Cannot run arithmetic negate on scalar value")

\* the concrete array type behind an ArrayRef, named by the scalar variant it stores
\* (what as_any().downcast_ref::<T>() tests); a timezone is not part of it
ArrayTypeOf(dt) ==
    CASE dt.k = "Timestamp" -> TimestampTagOf(dt.unit)
      [] dt.k = "Interval" -> IntervalTagOf(dt.unit)
      [] dt.k = "Decimal" -> "Decimal128"
      [] OTHER -> dt.k

\* ArrayData::is_null: reads the validity bitmap; a NullArray carries none
data_is_null(array, index) ==
    IF array.dt.k = "Null" THEN FALSE ELSE ~is_valid(array, index)

\* `&array.value(index) == val` on the native type: IEEE comparison for floats
NativeEq(tag, x, y) == IF tag \in FloatTags THEN IeeeEq(x, y) ELSE x = y

eq_array_primitive(array, index, tag, val) ==
    IF ArrayTypeOf(array.dt) # tag THEN Panic("downcast_ref(..).unwrap()")
    ELSE IF IsSome(val)
         THEN Ok(is_valid(array, index) /\ NativeEq(tag, array.slots[index + 1][1], val[1]))
         ELSE Ok(~is_valid(array, index))

eq_array_decimal(array, index, value, precision, scale) ==
    IF ArrayTypeOf(array.dt) # "Decimal128" THEN Panic("downcast_ref(..).unwrap()")
    ELSE IF array.dt.p # precision \/ array.dt.s # scale THEN Ok(FALSE)
         ELSE IF IsNone(value) THEN Ok(~is_valid(array, index))
              ELSE Ok(is_valid(array, index) /\ array.slots[index + 1][1] = value[1])

RECURSIVE eq_array(_, _, _)
eq_array_dictionary(x, array, index, key_type) ==
    IF key_type.k \notin DictionaryKeyKinds THEN Panic("Invalid dictionary keys type")
    ELSE IF IsSome(array.keys[index + 1])
         THEN eq_array(x, array.values, array.keys[index + 1][1])
         ELSE Ok(is_null(x))

eq_array(x, array, index) ==
    IF array.dt.k = "Dictionary" THEN eq_array_dictionary(x, array, index, array.dt.key)
    ELSE CASE x.tag = "Decimal128" -> eq_array_decimal(array, index, x.v, x.p, x.s)
           [] x.tag \in {"List", "Struct"} -> Panic("not implemented")
           [] x.tag = "Null" -> Ok(data_is_null(array, index))
           [] OTHER -> eq_array_primitive(array, index, x.tag, x.v)

\* the computation eq_array is documented to optimise:
\* try_from_array(array, index).unwrap().eq(self)
eq_array_reference(x, array, index) ==
    LET r == try_from_array(array, index) IN
    IF IsOk(r) THEN Ok(ScalarEq(r.val, x)) ELSE Panic("try_from_array(..).unwrap()")

(***************************************************************************)
(* Qualified schemas (DFSchema / DFField).  A field is                     *)
(* [qualifier, name, ty, nullable] with an Option qualifier; a schema is   *)
(* its ordered fields plus the metadata keys it carries.                   *)
(***************************************************************************)
DFField(qualifier, name, ty, nullable) ==
    [qualifier |-> qualifier, name |-> name, ty |-> ty, nullable |-> nullable]
DFSchema(fields, metadata) == [fields |-> fields, metadata |-> metadata]

Col(relation, name) == [e |-> "Column", relation |-> relation, name |-> name]
qualified_column(f) == Col(f.qualifier, f.name)

\* DFSchema::new_with_metadata: rejects a repeated (qualifier, name), a repeated
\* unqualified name, and a qualified field sharing its name with an unqualified one
new_with_metadata(fields, metadata) ==
    LET I == 1..Len(fields)
        qualified(i) == IsSome(fields[i].qualifier)
        \* the fields are read in order: a field repeating an earlier one stops the scan
        repeats == {j \in I : \E i \in 1..(j - 1) :
                       /\ fields[i].name = fields[j].name
                       /\ fields[i].qualifier = fields[j].qualifier}
    IN  IF repeats # {}
        THEN IF qualified(CHOOSE j \in repeats : \A k \in repeats : j <= k)
             THEN Err("DuplicateQualifiedField")
             ELSE Err("DuplicateUnqualifiedField")
        ELSE IF \E i, j \in I : qualified(i) /\ ~qualified(j)
                                    /\ fields[i].name = fields[j].name
             THEN Err("AmbiguousReference")
             ELSE Ok(DFSchema(fields, metadata))

fields_with_unqualified_name(schema, name) ==
    SelectSeq(schema.fields, LAMBDA f : f.name = name)

field_with_unqualified_name(schema, name) ==
    LET matches == fields_with_unqualified_name(schema, name) IN
    IF Len(matches) = 0 THEN Err("FieldNotFound")
    ELSE IF Len(matches) = 1 THEN Ok(matches[1])
         ELSE Err("Ambiguous reference to field")

field_with_qualified_name(schema, qualifier, name) ==
    LET matches == SelectSeq(schema.fields,
                             LAMBDA f : f.qualifier = Some(qualifier) /\ f.name = name) IN
    IF Len(matches) = 0 THEN Err("FieldNotFound")
    ELSE IF Len(matches) = 1 THEN Ok(matches[1])
         ELSE Err("Ambiguous reference to qualified field")

field_from_column(schema, c) ==
    IF IsSome(c.relation) THEN field_with_qualified_name(schema, c.relation[1], c.name)
    ELSE field_with_unqualified_name(schema, c.name)

replace_qualifier(schema, qualifier) ==
    DFSchema([i \in 1..Len(schema.fields) |->
                 [schema.fields[i] EXCEPT !.qualifier = Some(qualifier)]], schema.metadata)

strip_qualifiers(schema) ==
    DFSchema([i \in 1..Len(schema.fields) |->
                 [schema.fields[i] EXCEPT !.qualifier = None]], schema.metadata)

\* DFSchema::try_from_qualified_schema(alias, &Schema::from(schema))
try_from_qualified_schema(qualifier, schema) ==
    new_with_metadata(replace_qualifier(schema, qualifier).fields, schema.metadata)

\* DFSchema::join
schema_join(left, right) ==
    new_with_metadata(left.fields \o right.fields, left.metadata \cup right.metadata)

\* arrow can_cast_types over the column types of the model: all are castable pairwise
can_cast_types(from, to) == TRUE

\* DFSchema::check_arrow_schema_type_compatible: pairwise over the zipped fields
check_arrow_schema_type_compatible(schema, arrow_schema) ==
    LET k == IF Len(schema.fields) < Len(arrow_schema.fields)
             THEN Len(schema.fields) ELSE Len(arrow_schema.fields) IN
    IF \A i \in 1..k : can_cast_types(arrow_schema.fields[i].ty, schema.fields[i].ty)
    THEN Ok(TRUE) ELSE Err("Column is not compatible")

(***************************************************************************)
(* Expressions (Expr), as far as the builder calls of the model use them.  *)
(***************************************************************************)
Alias(expr, name) == [e |-> "Alias", expr |-> expr, name |-> name]
AggregateFunction(fun, args) ==
    [e |-> "AggregateFunction", fun |-> fun, args |-> args, distinct |-> FALSE]
WindowFunction(fun, args) ==
    [e |-> "WindowFunction", fun |-> fun, args |-> args, partition_by |-> <<>>,
     order_by |-> <<>>]
BinaryExpr(left, o, right) == [e |-> "BinaryExpr", left |-> left, op |-> o, right |-> right]
Literal(v) == [e |-> "Literal", v |-> v]
SortExpr(expr, asc, nulls_first) ==
    [e |-> "Sort", expr |-> expr, asc |-> asc, nulls_first |-> nulls_first]
Wildcard == [e |-> "Wildcard"]

\* the Debug text of a literal's scalar: Int32(1), Int32(NULL), NULL
scalar_debug(v) ==
    IF v.tag = "Null" THEN "NULL"
    ELSE v.tag \o "(" \o (IF IsSome(v.v) THEN ToString(v.v[1]) ELSE "NULL") \o ")"

flat_name(c) == IF IsSome(c.relation) THEN c.relation[1] \o "." \o c.name ELSE c.name

RECURSIVE JoinNames(_)
JoinNames(names) ==
    IF Len(names) = 0 THEN ""
    ELSE IF Len(names) = 1 THEN names[1]
         ELSE names[1] \o ", " \o JoinNames(Tail(names))

RECURSIVE create_name(_)
create_names(args) ==
    AndThen(Collect([i \in 1..Len(args) |-> create_name(args[i])]),
            LAMBDA names : Ok(JoinNames(names)))

\* Expr::name
create_name(x) ==
    CASE x.e = "Column" -> Ok(flat_name(x))
      [] x.e = "Alias" -> Ok(x.name)
      [] x.e = "Literal" -> Ok(scalar_debug(x.v))
      [] x.e = "BinaryExpr" ->
            AndThen(create_name(x.left), LAMBDA l :
            AndThen(create_name(x.right), LAMBDA r :
                Ok(l \o " " \o x.op \o " " \o r)))
      [] x.e \in {"AggregateFunction", "WindowFunction"} ->
            AndThen(create_names(x.args), LAMBDA names : Ok(x.fun \o "(" \o names \o ")"))
      [] x.e = "Sort" -> Err("Create name does not support sort expression")
      [] OTHER -> Err("Create name does not support wildcard")

\* Expr::get_type and Expr::nullable against a schema
RECURSIVE expr_type(_, _)
expr_type(x, schema) ==
    CASE x.e = "Column" ->
            AndThen(field_from_column(schema, x),
                    LAMBDA f : Ok([ty |-> f.ty, nullable |-> f.nullable]))
      [] x.e \in {"Alias", "Sort"} -> expr_type(x.expr, schema)
      [] x.e = "Literal" -> Ok([ty |-> get_datatype(x.v).k, nullable |-> is_null(x.v)])
      [] x.e = "BinaryExpr" ->
            AndThen(expr_type(x.left, schema), LAMBDA l :
            AndThen(expr_type(x.right, schema), LAMBDA r :
                Ok([ty |-> "Boolean", nullable |-> l.nullable \/ r.nullable])))
      [] x.e = "AggregateFunction" ->
            AndThen(Collect([j \in 1..Len(x.args) |-> expr_type(x.args[j], schema)]),
                    LAMBDA ts : Ok([ty |-> "Int64", nullable |-> TRUE]))
      [] x.e = "WindowFunction" ->
            AndThen(Collect([j \in 1..Len(x.args) |-> expr_type(x.args[j], schema)]),
                    LAMBDA ts : Ok([ty |-> "UInt64", nullable |-> TRUE]))
      [] OTHER -> Err("Wildcard expressions are not valid in a logical query plan")

\* Expr::to_field: a column keeps its qualifier, anything else is an unqualified
\* field called by the expression's name
to_field(x, schema) ==
    AndThen(expr_type(x, schema), LAMBDA t :
        IF x.e = "Column" THEN Ok(DFField(x.relation, x.name, t.ty, t.nullable))
        ELSE AndThen(create_name(x), LAMBDA name : Ok(DFField(None, name, t.ty, t.nullable))))

\* the columns an expression refers to, without repetition (expr_to_columns)
RECURSIVE expr_to_columns(_)
RECURSIVE Dedup(_)
Dedup(cs) ==
    IF Len(cs) = 0 THEN <<>>
    ELSE <<Head(cs)>> \o Dedup(SelectSeq(Tail(cs), LAMBDA c : c # Head(cs)))
columns_of_all(xs) == SeqConcat([j \in 1..Len(xs) |-> expr_to_columns(xs[j])])
expr_to_columns(x) ==
    Dedup(CASE x.e = "Column" -> <<x>>
            [] x.e \in {"Alias", "Sort"} -> expr_to_columns(x.expr)
            [] x.e = "BinaryExpr" -> expr_to_columns(x.left) \o expr_to_columns(x.right)
            [] x.e = "AggregateFunction" -> columns_of_all(x.args)
            [] x.e = "WindowFunction" ->
                  columns_of_all(x.args) \o columns_of_all(x.partition_by)
                      \o columns_of_all(x.order_by)
            [] OTHER -> <<>>)

\* columnize_expr: an expression whose name is a field of the input becomes that column
RECURSIVE columnize_expr(_, _)
columnize_expr(x, input_schema) ==
    CASE x.e = "Column" -> x
      [] x.e = "Alias" -> Alias(columnize_expr(x.expr, input_schema), x.name)
      [] OTHER ->
            OrElse(create_name(x),
                   LAMBDA name : OrElse(field_with_unqualified_name(input_schema, name),
                                        LAMBDA f : qualified_column(f), x),
                   x)

(***************************************************************************)
(* LogicalPlan: one constructor per variant the model builds.              *)
(***************************************************************************)
TableScan(table_name, projected_schema) ==
    [node |-> "TableScan", table_name |-> table_name, projected_schema |-> projected_schema]
EmptyRelation(produce_one_row, schema) ==
    [node |-> "EmptyRelation", produce_one_row |-> produce_one_row, schema |-> schema]
Values(schema, values) == [node |-> "Values", schema |-> schema, values |-> values]
Projection(expr, input, schema, alias) ==
    [node |-> "Projection", expr |-> expr, input |-> input, schema |-> schema, alias |-> alias]
Filter(predicate, input) == [node |-> "Filter", predicate |-> predicate, input |-> input]
Window(input, window_expr, schema) ==
    [node |-> "Window", input |-> input, window_expr |-> window_expr, schema |-> schema]
Aggregate(input, group_expr, aggr_expr, schema) ==
    [node |-> "Aggregate", input |-> input, group_expr |-> group_expr,
     aggr_expr |-> aggr_expr, schema |-> schema]
Sort(expr, input) == [node |-> "Sort", expr |-> expr, input |-> input]
Join(left, right, on, join_type, join_constraint, schema, null_equals_null) ==
    [node |-> "Join", left |-> left, right |-> right, on |-> on, join_type |-> join_type,
     join_constraint |-> join_constraint, schema |-> schema,
     null_equals_null |-> null_equals_null]
CrossJoin(left, right, schema) ==
    [node |-> "CrossJoin", left |-> left, right |-> right, schema |-> schema]
Repartition(input, partitioning_scheme) ==
    [node |-> "Repartition", input |-> input, partitioning_scheme |-> partitioning_scheme]
Union(inputs, schema, alias) ==
    [node |-> "Union", inputs |-> inputs, schema |-> schema, alias |-> alias]
Limit(k, input) == [node |-> "Limit", n |-> k, input |-> input]
SubqueryAlias(input, alias, schema) ==
    [node |-> "SubqueryAlias", input |-> input, alias |-> alias, schema |-> schema]
Subquery(subquery) == [node |-> "Subquery", subquery |-> subquery]
Explain(verbose, p, stringified_plans, schema) ==
    [node |-> "Explain", verbose |-> verbose, plan |-> p,
     stringified_plans |-> stringified_plans, schema |-> schema]
Analyze(verbose, input, schema) ==
    [node |-> "Analyze", verbose |-> verbose, input |-> input, schema |-> schema]

SingleInputNodes == {"Filter", "Sort", "Limit", "Repartition"}
OwnSchemaNodes ==
    {"EmptyRelation", "Values", "Projection", "Window", "Aggregate", "Join", "CrossJoin",
     "Union", "SubqueryAlias", "Explain", "Analyze"}

\* LogicalPlan::schema
RECURSIVE plan_schema(_)
plan_schema(p) ==
    CASE p.node = "TableScan" -> p.projected_schema
      [] p.node \in OwnSchemaNodes -> p.schema
      [] p.node \in SingleInputNodes -> plan_schema(p.input)
      [] p.node = "Subquery" -> plan_schema(p.subquery)

\* LogicalPlan::inputs
plan_inputs(p) ==
    CASE p.node \in {"Projection", "Filter", "Window", "Aggregate", "Sort", "Repartition",
                     "Limit", "SubqueryAlias", "Analyze"} -> <<p.input>>
      [] p.node \in {"Join", "CrossJoin"} -> <<p.left, p.right>>
      [] p.node = "Subquery" -> <<p.subquery>>
      [] p.node = "Union" -> p.inputs
      [] p.node = "Explain" -> <<p.plan>>
      [] OTHER -> <<>>

\* LogicalPlan::expressions
plan_expressions(p) ==
    CASE p.node = "Projection" -> p.expr
      [] p.node = "Values" -> SeqConcat(p.values)
      [] p.node = "Filter" -> <<p.predicate>>
      [] p.node = "Repartition" ->
            IF p.partitioning_scheme.scheme = "Hash" THEN p.partitioning_scheme.expr ELSE <<>>
      [] p.node = "Window" -> p.window_expr
      [] p.node = "Aggregate" -> p.group_expr \o p.aggr_expr
      [] p.node = "Join" -> SeqConcat([j \in 1..Len(p.on) |-> <<p.on[j][1], p.on[j][2]>>])
      [] p.node = "Sort" -> p.expr
      [] OTHER -> <<>>

\* LogicalPlan::all_schemas: the schemas a column of the node may resolve against
RECURSIVE all_schemas(_)
all_schemas(p) ==
    CASE p.node \in {"Window", "Projection", "Aggregate"} -> <<p.schema>> \o all_schemas(p.input)
      [] p.node \in {"Join", "CrossJoin"} ->
            <<p.schema>> \o all_schemas(p.left) \o all_schemas(p.right)
      [] p.node = "Subquery" -> all_schemas(p.subquery)
      [] p.node \in SingleInputNodes -> all_schemas(p.input)
      [] OTHER -> <<plan_schema(p)>>

\* LogicalPlan::using_columns: for each Using join at or below the node, the set of its
\* key columns
RECURSIVE using_columns(_)
using_columns(p) ==
    UNION {using_columns(plan_inputs(p)[j]) : j \in 1..Len(plan_inputs(p))}
        \cup (IF p.node = "Join" /\ p.join_constraint = "Using"
              THEN {UNION {{p.on[j][1], p.on[j][2]} : j \in 1..Len(p.on)}}
              ELSE {})

\* Column::normalize_with_schemas: a bare name takes the qualifier of the one field
\* carrying it in the first schema that knows the name
RECURSIVE normalize_with_schemas(_, _, _)
normalize_with_schemas(c, schemas, using) ==
    IF IsSome(c.relation) THEN Ok(c)
    ELSE IF Len(schemas) = 0 THEN Err("FieldNotFound")
    ELSE LET fields == fields_with_unqualified_name(schemas[1], c.name) IN
         IF Len(fields) = 0 THEN normalize_with_schemas(c, Tail(schemas), using)
         ELSE IF Len(fields) = 1 THEN Ok(qualified_column(fields[1]))
         ELSE IF \E u \in using :
                    \A j \in 1..Len(fields) : qualified_column(fields[j]) \in u
              THEN Ok(qualified_column(fields[1]))
              ELSE Err("AmbiguousReference")

RECURSIVE normalize_expr(_, _, _)
normalize_exprs(xs, schemas, using) ==
    Collect([j \in 1..Len(xs) |-> normalize_expr(xs[j], schemas, using)])

normalize_expr(x, schemas, using) ==
    CASE x.e = "Column" -> normalize_with_schemas(x, schemas, using)
      [] x.e \in {"Alias", "Sort"} ->
            AndThen(normalize_expr(x.expr, schemas, using),
                    LAMBDA r : Ok([x EXCEPT !.expr = r]))
      [] x.e = "BinaryExpr" ->
            AndThen(normalize_expr(x.left, schemas, using), LAMBDA l :
            AndThen(normalize_expr(x.right, schemas, using), LAMBDA r :
                Ok([x EXCEPT !.left = l, !.right = r])))
      [] x.e = "AggregateFunction" ->
            AndThen(normalize_exprs(x.args, schemas, using),
                    LAMBDA r : Ok([x EXCEPT !.args = r]))
      [] x.e = "WindowFunction" ->
            AndThen(normalize_exprs(x.args, schemas, using), LAMBDA r :
            AndThen(normalize_exprs(x.partition_by, schemas, using), LAMBDA pb :
            AndThen(normalize_exprs(x.order_by, schemas, using), LAMBDA ob :
                Ok([x EXCEPT !.args = r, !.partition_by = pb, !.order_by = ob]))))
      [] OTHER -> Ok(x)

\* normalize_col / normalize_cols: against the schemas visible from `p`
normalize_col(x, p) == normalize_expr(x, all_schemas(p), using_columns(p))
normalize_cols(xs, p) == normalize_exprs(xs, all_schemas(p), using_columns(p))

\* LogicalPlanBuilder::normalize
normalize(p, column) == normalize_with_schemas(column, all_schemas(p), using_columns(p))

\* one column per field of the schema
schema_columns(schema) ==
    [j \in 1..Len(schema.fields) |-> qualified_column(schema.fields[j])]

\* the strings of the model in their lexicographic order, and a column's place in the
\* order of Column (relation first, None before Some, then name)
StringOrder == <<"a", "b", "column1", "column2", "plan", "plan_type", "t1", "t2", "x">>
StrBefore(s, t) ==
    \E i, j \in 1..Len(StringOrder) : i < j /\ StringOrder[i] = s /\ StringOrder[j] = t
ColumnBefore(c, d) ==
    \/ IsNone(c.relation) /\ IsSome(d.relation)
    \/ IsSome(c.relation) /\ IsSome(d.relation) /\ StrBefore(c.relation[1], d.relation[1])
    \/ c.relation = d.relation /\ StrBefore(c.name, d.name)

\* expand_wildcard: one column per field, keeping only the first column (in the order
\* of Column) of each Using join's keys
expand_wildcard(schema, p) ==
    Ok(SelectSeq(schema_columns(schema),
                 LAMBDA c : ~\E u \in using_columns(p) :
                                c \in u /\ \E d \in u : ColumnBefore(d, c)))

\* exprlist_to_fields: each expression's field against the plan's output schema
exprlist_to_fields(xs, p) ==
    Collect([j \in 1..Len(xs) |-> to_field(xs[j], plan_schema(p))])

(***************************************************************************)
(* The builder's free functions.                                           *)
(***************************************************************************)
\* the names are read in order up to the first one that fails or repeats an earlier one
unique_names(node_name, names) ==
    LET stop == {j \in 1..Len(names) :
                    /\ \A k \in 1..(j - 1) : IsOk(names[k])
                    /\ (~IsOk(names[j]) \/ \E k \in 1..(j - 1) : names[k].val = names[j].val)}
    IN  IF stop = {} THEN Ok(TRUE)
        ELSE LET j == CHOOSE j \in stop : \A k \in stop : j <= k IN
             IF IsOk(names[j]) THEN Err(node_name \o " require unique expression names")
             ELSE names[j]

validate_unique_names(node_name, expressions, input_schema) ==
    unique_names(node_name, [j \in 1..Len(expressions) |-> create_name(expressions[j])])

build_join_schema(left, right, join_type) ==
    LET fields == IF join_type \in {"Inner", "Left", "Full", "Right"}
                  THEN left.fields \o right.fields
                  ELSE left.fields
    IN  new_with_metadata(fields, left.metadata \cup right.metadata)

project_with_column_index_aliasMutant(expr, input, schema, alias) ==
    Projection(expr, input, schema, alias)
project_with_column_index_alias(expr, input, schema, alias) ==
    Projection([j \in 1..Len(expr) |->
                   IF expr[j].e \in {"Alias", "Column"} THEN expr[j]
                   ELSE Alias(expr[j], "column" \o ToString(j - 1))],
               input, schema, alias)

\* the expressions project_with_alias projects: wildcards expanded, the rest
\* normalized and columnized
projected_exprs(p, expr) ==
    AndThen(Collect([j \in 1..Len(expr) |->
                IF expr[j].e = "Wildcard" THEN expand_wildcard(plan_schema(p), p)
                ELSE AndThen(normalize_col(expr[j], p),
                             LAMBDA e : Ok(<<columnize_expr(e, plan_schema(p))>>))]),
            LAMBDA each : Ok(SeqConcat(each)))

project_with_alias(p, expr, alias) ==
    AndThen(projected_exprs(p, expr), LAMBDA projected_expr :
    AndThen(validate_unique_names("Projections", projected_expr, plan_schema(p)), LAMBDA unique :
    AndThen(exprlist_to_fields(projected_expr, p), LAMBDA fields :
    AndThen(new_with_metadata(fields, plan_schema(p).metadata), LAMBDA input_schema :
        Ok(Projection(projected_expr, p,
                      IF IsSome(alias) THEN replace_qualifier(input_schema, alias[1])
                      ELSE input_schema,
                      alias))))))

\* the inputs of a union: a Union operand contributes its inputs, any other plan itself
UnionOperandInputsMutant(p) == <<p>>
UnionOperandInputs(p) == IF p.node = "Union" THEN p.inputs ELSE <<p>>

union_with_alias(left_plan, right_plan, alias) ==
    LET union_schema == plan_schema(left_plan)
        inputs_iter == UnionOperandInputs(left_plan) \o UnionOperandInputs(right_plan)
        checks == [j \in 2..Len(inputs_iter) |->
                      check_arrow_schema_type_compatible(union_schema,
                                                         plan_schema(inputs_iter[j]))]
        inputs == [j \in 1..Len(inputs_iter) |->
                      IF inputs_iter[j].node = "Projection"
                      THEN project_with_column_index_alias(inputs_iter[j].expr,
                               inputs_iter[j].input, union_schema, inputs_iter[j].alias)
                      ELSE inputs_iter[j]]
    IN  IF \E j \in 2..Len(inputs_iter) : ~IsOk(checks[j])
        THEN checks[CHOOSE j \in 2..Len(inputs_iter) :
                        ~IsOk(checks[j]) /\ \A k \in 2..(j - 1) : IsOk(checks[k])]
        ELSE IF Len(inputs) = 0 THEN Err("Empty UNION")
        ELSE LET first == plan_schema(inputs[1]) IN
             Ok(Union(inputs,
                      IF IsSome(alias) THEN replace_qualifier(first, alias[1])
                      ELSE strip_qualifiers(first),
                      alias))

(***************************************************************************)
(* from_plan (optimizer/utils.rs): the node `p` rebuilt over new           *)
(* expressions and inputs.                                                 *)
(***************************************************************************)
RECURSIVE Chunks(_, _)
Chunks(xs, k) ==
    IF Len(xs) < k THEN <<>> ELSE <<SubSeq(xs, 1, k)>> \o Chunks(SubSeq(xs, k + 1, Len(xs)), k)

\* LogicalPlanBuilder::cross_join
cross_join(left, right) ==
    AndThen(schema_join(plan_schema(left), plan_schema(right)),
            LAMBDA schema : Ok(CrossJoin(left, right, schema)))

AggregateGroupLenMutant(group_expr) == 0
\* how many of the expressions handed to from_plan are the Aggregate's group keys
AggregateGroupLen(group_expr) == Len(group_expr)

from_plan(p, expr, inputs) ==
    CASE p.node \in {"EmptyRelation", "TableScan"} ->
            IF Len(expr) # 0 THEN Panic("should have no exprs")
            ELSE IF Len(inputs) # 0 THEN Panic("should have no inputs")
            ELSE Ok(p)
      [] p.node = "Explain" ->
            IF Len(expr) # 0 \/ Len(inputs) # 0
            THEN Panic("Explain can not be created from utils::from_expr")
            ELSE Ok(p)
      [] p.node = "Values" ->
            IF Len(p.schema.fields) = 0 THEN Panic("chunk size must be non-zero")
            ELSE Ok(Values(p.schema, Chunks(expr, Len(p.schema.fields))))
      [] p.node = "Union" -> Ok(Union(inputs, p.schema, p.alias))
      [] p.node = "Analyze" ->
            IF Len(expr) # 0 \/ Len(inputs) # 1 THEN Panic("assertion failed")
            ELSE Ok(Analyze(p.verbose, inputs[1], p.schema))
      [] p.node \in {"Join", "CrossJoin"} ->
            IF Len(inputs) < 2 THEN Panic("index out of bounds")
            ELSE IF p.node = "CrossJoin" THEN cross_join(inputs[1], inputs[2])
            ELSE AndThen(build_join_schema(plan_schema(inputs[1]), plan_schema(inputs[2]),
                                           p.join_type),
                         LAMBDA schema :
                             Ok(Join(inputs[1], inputs[2], p.on, p.join_type,
                                     p.join_constraint, schema, p.null_equals_null)))
      [] OTHER ->
            IF Len(inputs) < 1 THEN Panic("index out of bounds")
            ELSE CASE p.node = "Projection" -> Ok(Projection(expr, inputs[1], p.schema, p.alias))
                   [] p.node = "Filter" ->
                        IF Len(expr) < 1 THEN Panic("index out of bounds")
                        ELSE Ok(Filter(expr[1], inputs[1]))
                   [] p.node = "Repartition" ->
                        IF p.partitioning_scheme.scheme = "RoundRobinBatch"
                        THEN Ok(Repartition(inputs[1], p.partitioning_scheme))
                        ELSE Ok(Repartition(inputs[1],
                                            [p.partitioning_scheme EXCEPT !.expr = expr]))
                   [] p.node = "Window" ->
                        IF Len(expr) < Len(p.window_expr) THEN Panic("range end out of bounds")
                        ELSE Ok(Window(inputs[1], SubSeq(expr, 1, Len(p.window_expr)), p.schema))
                   [] p.node = "Aggregate" ->
                        IF Len(expr) < AggregateGroupLen(p.group_expr)
                        THEN Panic("range end out of bounds")
                        ELSE Ok(Aggregate(inputs[1],
                                          SubSeq(expr, 1, AggregateGroupLen(p.group_expr)),
                                          SubSeq(expr, AggregateGroupLen(p.group_expr) + 1, Len(expr)),
                                          p.schema))
                   [] p.node = "Sort" -> Ok(Sort(expr, inputs[1]))
                   [] p.node = "Subquery" -> Ok(Subquery(inputs[1]))
                   [] p.node = "SubqueryAlias" ->
                        AndThen(try_from_qualified_schema(p.alias, plan_schema(inputs[1])),
                                LAMBDA schema : Ok(SubqueryAlias(inputs[1], p.alias, schema)))
                   [] p.node = "Limit" -> Ok(Limit(p.n, inputs[1]))

(***************************************************************************)
(* Expression children: expr_sub_expressions lists the direct children of  *)
(* an expression, rewrite_expression builds the expression again from a    *)
(* list of children.  Window and Case children are separated by marker     *)
(* literals.                                                               *)
(***************************************************************************)
IsNullExpr(expr) == [e |-> "IsNull", expr |-> expr]
Not(expr) == [e |-> "Not", expr |-> expr]
Cast(expr, data_type) == [e |-> "Cast", expr |-> expr, data_type |-> data_type]
GetIndexedField(expr, key) == [e |-> "GetIndexedField", expr |-> expr, key |-> key]
ScalarFunction(fun, args) == [e |-> "ScalarFunction", fun |-> fun, args |-> args]
GroupingSet(kind, exprs) == [e |-> "GroupingSet", kind |-> kind, exprs |-> exprs]
Case(expr, when_then_expr, else_expr) ==
    [e |-> "Case", expr |-> expr, when_then_expr |-> when_then_expr, else_expr |-> else_expr]
Between(expr, negated, low, high) ==
    [e |-> "Between", expr |-> expr, negated |-> negated, low |-> low, high |-> high]
InList(expr, list, negated) ==
    [e |-> "InList", expr |-> expr, list |-> list, negated |-> negated]
InSubquery(expr, subquery, negated) ==
    [e |-> "InSubquery", expr |-> expr, subquery |-> subquery, negated |-> negated]
Exists(subquery, negated) == [e |-> "Exists", subquery |-> subquery, negated |-> negated]

CASE_EXPR_MARKER == "__DATAFUSION_CASE_EXPR__"
CASE_ELSE_MARKER == "__DATAFUSION_CASE_ELSE__"
WINDOW_PARTITION_MARKER == "__DATAFUSION_WINDOW_PARTITION__"
WINDOW_SORT_MARKER == "__DATAFUSION_WINDOW_SORT__"
lit(str) == Literal(Simple("Utf8", Some(str)))

SingleChildKinds ==
    {"IsNull", "IsNotNull", "Cast", "TryCast", "Alias", "Not", "Negative", "Sort",
     "GetIndexedField"}
ArgsKinds == {"ScalarFunction", "ScalarUDF", "AggregateFunction", "AggregateUDF"}
ChildlessKinds == {"Column", "Literal", "ScalarVariable", "Exists", "ScalarSubquery"}
\* the variants rewrite_expression hands back as they are
ClonedKinds ==
    {"Column", "Literal", "InList", "Exists", "InSubquery", "ScalarSubquery", "ScalarVariable"}

expr_sub_expressions(x) ==
    CASE x.e = "BinaryExpr" -> Ok(<<x.left, x.right>>)
      [] x.e \in SingleChildKinds -> Ok(<<x.expr>>)
      [] x.e \in ArgsKinds -> Ok(x.args)
      [] x.e = "GroupingSet" ->
            IF x.kind \in {"Rollup", "Cube"} THEN Ok(x.exprs)
            ELSE Err("GroupingSets are not supported yet")
      [] x.e = "WindowFunction" ->
            Ok(x.args \o <<lit(WINDOW_PARTITION_MARKER)>> \o x.partition_by
                      \o <<lit(WINDOW_SORT_MARKER)>> \o x.order_by)
      [] x.e = "Case" ->
            Ok((IF IsSome(x.expr) THEN <<lit(CASE_EXPR_MARKER), x.expr[1]>> ELSE <<>>)
               \o SeqConcat(x.when_then_expr)
               \o (IF IsSome(x.else_expr) THEN <<lit(CASE_ELSE_MARKER), x.else_expr[1]>>
                   ELSE <<>>))
      [] x.e \in ChildlessKinds -> Ok(<<>>)
      [] x.e = "Between" -> Ok(<<x.expr, x.low, x.high>>)
      [] x.e = "InList" -> Ok(<<x.expr>> \o x.list)
      [] x.e = "InSubquery" -> Ok(<<x.expr>>)
      [] x.e = "Wildcard" ->
            Err("Wildcard expressions are not valid in a logical query plan")
      [] OTHER -> Err("QualifiedWildcard expressions are not valid in a logical query plan")

\* Iterator::position of a marker literal, 0-based, or None
MarkerPosition(expressions, marker) ==
    IF \E i \in 1..Len(expressions) : expressions[i] = lit(marker)
    THEN Some((CHOOSE i \in 1..Len(expressions) :
                  /\ expressions[i] = lit(marker)
                  /\ \A k \in 1..(i - 1) : expressions[k] # lit(marker)) - 1)
    ELSE None

\* the loop of the Case arm from 0-based position i on, with what it has gathered
RECURSIVE rewrite_case(_, _, _)
rewrite_case(expressions, i, acc) ==
    IF i >= Len(expressions) THEN Ok(Case(acc.expr, acc.when_then_expr, acc.else_expr))
    ELSE IF i + 1 >= Len(expressions) THEN Panic("index out of bounds")
    ELSE IF expressions[i + 1] = lit(CASE_EXPR_MARKER)
         THEN rewrite_case(expressions, i + 2, [acc EXCEPT !.expr = Some(expressions[i + 2])])
    ELSE IF expressions[i + 1] = lit(CASE_ELSE_MARKER)
         THEN rewrite_case(expressions, i + 2,
                           [acc EXCEPT !.else_expr = Some(expressions[i + 2])])
    ELSE rewrite_case(expressions, i + 2,
                      [acc EXCEPT !.when_then_expr =
                                     @ \o <<(<<expressions[i + 1], expressions[i + 2]>>)>>])

rewrite_expression(x, expressions) ==
    CASE x.e = "BinaryExpr" ->
            IF Len(expressions) < 2 THEN Panic("index out of bounds")
            ELSE Ok(BinaryExpr(expressions[1], x.op, expressions[2]))
      [] x.e \in SingleChildKinds ->
            IF Len(expressions) < 1 THEN Panic("index out of bounds")
            ELSE Ok([x EXCEPT !.expr = expressions[1]])
      [] x.e \in ArgsKinds -> Ok([x EXCEPT !.args = expressions])
      [] x.e = "WindowFunction" ->
            LET partition_index == MarkerPosition(expressions, WINDOW_PARTITION_MARKER)
                sort_index == MarkerPosition(expressions, WINDOW_SORT_MARKER)
            IN  IF IsNone(partition_index)
                THEN Err("Ill-formed window function expressions: unexpected marker")
                ELSE IF IsNone(sort_index)
                THEN Err("Ill-formed window function expressions")
                ELSE IF partition_index[1] >= sort_index[1]
                THEN Err("Ill-formed window function expressions: partition index too large")
                ELSE Ok([x EXCEPT
                           !.args = SubSeq(expressions, 1, partition_index[1]),
                           !.partition_by =
                               SubSeq(expressions, partition_index[1] + 2, sort_index[1]),
                           !.order_by =
                               SubSeq(expressions, sort_index[1] + 2, Len(expressions))])
      [] x.e = "GroupingSet" ->
            IF x.kind \in {"Rollup", "Cube"}
            THEN Ok(GroupingSet("Rollup", expressions))
            ELSE Err("GroupingSets are not supported yet")
      [] x.e = "Case" ->
            rewrite_case(expressions, 0,
                         [expr |-> None, when_then_expr |-> <<>>, else_expr |-> None])
      [] x.e \in ClonedKinds -> Ok(x)
      [] x.e = "Between" ->
            IF Len(expressions) < 3 THEN Panic("index out of bounds")
            ELSE LET range == BinaryExpr(BinaryExpr(expressions[1], ">=", expressions[2]),
                                         "AND",
                                         BinaryExpr(expressions[1], "<=", expressions[3]))
                 IN  IF x.negated THEN Ok(Not(range)) ELSE Ok(range)
      [] x.e = "Wildcard" ->
            Err("Wildcard expressions are not valid in a logical query plan")
      [] OTHER -> Err("QualifiedWildcard expressions are not valid in a logical query plan")

(***************************************************************************)
(* LogicalPlanBuilder: each method takes the receiver's plan and returns   *)
(* the plan of the builder it hands back, or the error.                    *)
(***************************************************************************)
from(p) == p

empty(produce_one_row) == Ok(from(EmptyRelation(produce_one_row, DFSchema(<<>>, {}))))

\* the type of one cell of a VALUES list: no type for a NULL literal
values_cell_type(x) ==
    IF x.e = "Literal" /\ x.v.tag = "Null" THEN Ok(None)
    ELSE AndThen(expr_type(x, DFSchema(<<>>, {})), LAMBDA t : Ok(Some(t.ty)))

\* values, given the type found for each cell of each row
typed_values(rows, cell) ==
    LET n_cols == Len(rows[1])
        short == {i \in 1..Len(rows) : Len(rows[i]) # n_cols}
        \* rows are read in order up to the first one of another length
        upto == IF short = {} THEN Len(rows)
                ELSE (CHOOSE i \in short : \A k \in short : i <= k) - 1
        clash(i, j) == /\ IsOk(cell[i][j]) /\ IsSome(cell[i][j].val)
                       /\ \E k \in 1..(i - 1) :
                             /\ IsOk(cell[k][j]) /\ IsSome(cell[k][j].val)
                             /\ cell[k][j].val # cell[i][j].val
        bad == {c \in (1..upto) \X (1..n_cols) : ~IsOk(cell[c[1]][c[2]]) \/ clash(c[1], c[2])}
        before(c, d) == c[1] < d[1] \/ (c[1] = d[1] /\ c[2] <= d[2])
        typed(j) == {i \in 1..Len(rows) : IsSome(cell[i][j].val)}
        ty(j) == IF typed(j) = {} THEN "Utf8" ELSE cell[CHOOSE i \in typed(j) : TRUE][j].val[1]
    IN  IF bad # {}
        THEN LET c == CHOOSE c \in bad : \A d \in bad : before(c, d) IN
             IF ~IsOk(cell[c[1]][c[2]]) THEN cell[c[1]][c[2]]
             ELSE Err("Inconsistent data type across values list")
        ELSE IF short # {} THEN Err("Inconsistent data length across values list")
        ELSE AndThen(Collect(SeqConcat([i \in 1..Len(rows) |-> [j \in 1..n_cols |->
                         IF rows[i][j].e = "Literal" /\ rows[i][j].v.tag = "Null"
                         THEN AndThen(TryFromDataType(DT(ty(j))), LAMBDA v : Ok(Literal(v)))
                         ELSE Ok(rows[i][j])]])),
                     LAMBDA filled :
             AndThen(new_with_metadata([j \in 1..n_cols |->
                                           DFField(None, "column" \o ToString(j), ty(j), TRUE)],
                                       {}),
                     LAMBDA schema : Ok(from(Values(schema, Chunks(filled, n_cols))))))

values(rows) ==
    IF Len(rows) = 0 THEN Err("Values list cannot be empty")
    ELSE IF Len(rows[1]) = 0 THEN Err("Values list cannot be zero length")
    ELSE typed_values(rows, [i \in 1..Len(rows) |->
                                [j \in 1..Len(rows[i]) |-> values_cell_type(rows[i][j])]])

scan_with_filters(table_name, provider_schema, projection) ==
    IF table_name = "" THEN Err("table_name cannot be empty")
    ELSE AndThen(IF IsSome(projection)
                 THEN new_with_metadata(
                          [j \in 1..Len(projection[1]) |->
                              [provider_schema.fields[projection[1][j] + 1]
                                  EXCEPT !.qualifier = Some(table_name)]],
                          provider_schema.metadata)
                 ELSE try_from_qualified_schema(table_name, provider_schema),
                 LAMBDA projected_schema : Ok(from(TableScan(table_name, projected_schema))))

project(self, expr) == project_with_alias(self, expr, None)

filter(self, expr) ==
    AndThen(normalize_col(expr, self), LAMBDA x : Ok(from(Filter(x, self))))

limit(self, k) == Ok(from(Limit(k, self)))

alias(self, name) ==
    AndThen(try_from_qualified_schema(name, plan_schema(self)),
            LAMBDA schema : Ok(from(SubqueryAlias(self, name, schema))))

repartition(self, partitioning_scheme) == Ok(from(Repartition(self, partitioning_scheme)))

window(self, window_expr) ==
    AndThen(normalize_cols(window_expr, self), LAMBDA xs :
    AndThen(validate_unique_names("Windows", xs, plan_schema(self)), LAMBDA unique :
    AndThen(exprlist_to_fields(xs, self), LAMBDA window_fields :
    AndThen(new_with_metadata(window_fields \o plan_schema(self).fields,
                              plan_schema(self).metadata), LAMBDA schema :
        Ok(from(Window(self, xs, schema)))))))

aggregate(self, group_expr, aggr_expr) ==
    AndThen(normalize_cols(group_expr, self), LAMBDA g :
    AndThen(normalize_cols(aggr_expr, self), LAMBDA agg :
    AndThen(validate_unique_names("Aggregations", g \o agg, plan_schema(self)), LAMBDA unique :
    AndThen(exprlist_to_fields(g \o agg, self), LAMBDA fields :
    AndThen(new_with_metadata(fields, plan_schema(self).metadata), LAMBDA aggr_schema :
        Ok(from(Aggregate(self, g, agg, aggr_schema))))))))

distinct(self) ==
    AndThen(expand_wildcard(plan_schema(self), self), LAMBDA projection_expr :
    AndThen(aggregate(self, projection_expr, <<>>), LAMBDA p :
        project(p, <<Wildcard>>)))

\* LogicalPlan::explain_schema().to_dfschema_ref()
explain_schema ==
    DFSchema(<<DFField(None, "plan_type", "Utf8", FALSE), DFField(None, "plan", "Utf8", FALSE)>>,
             {})

explain(self, verbose, analyze) ==
    IF analyze THEN Ok(from(Analyze(verbose, self, explain_schema)))
    ELSE Ok(from(Explain(verbose, self, <<"initial_logical_plan">>, explain_schema)))

\* one (left, right) key pair of join_detailed, each side resolved or failed
join_key_pair(self, right, l, r) ==
    LET ls == plan_schema(self)
        rs == plan_schema(right)
        both == <<normalize(self, l), normalize(right, r)>>
    IN  CASE IsSome(l.relation) /\ IsSome(r.relation) ->
               LET l_is_left == field_with_qualified_name(ls, l.relation[1], l.name)
                   l_is_right == field_with_qualified_name(rs, l.relation[1], l.name)
                   r_is_left == field_with_qualified_name(ls, r.relation[1], r.name)
                   r_is_right == field_with_qualified_name(rs, r.relation[1], r.name)
               IN  IF IsOk(l_is_right) /\ IsOk(r_is_left) THEN <<Ok(r), Ok(l)>>
                   ELSE IF IsOk(l_is_left) /\ IsOk(r_is_right) THEN <<Ok(l), Ok(r)>>
                   ELSE both
          [] IsSome(l.relation) /\ IsNone(r.relation) ->
               IF IsOk(field_with_qualified_name(ls, l.relation[1], l.name))
               THEN <<Ok(l), normalize(right, r)>>
               ELSE IF IsOk(field_with_qualified_name(rs, l.relation[1], l.name))
                    THEN <<normalize(self, r), Ok(l)>>
                    ELSE both
          [] IsNone(l.relation) /\ IsSome(r.relation) ->
               IF IsOk(field_with_qualified_name(ls, r.relation[1], r.name))
               THEN <<Ok(r), normalize(right, l)>>
               ELSE IF IsOk(field_with_qualified_name(rs, r.relation[1], r.name))
                    THEN <<normalize(self, l), Ok(r)>>
                    ELSE both
          [] OTHER ->
               LET first == normalize(self, l) IN
               IF IsOk(first) THEN <<first, normalize(right, r)>>
               ELSE <<normalize(self, r), normalize(right, l)>>

join_detailed(self, right, join_type, left_cols, right_cols, null_equals_null) ==
    IF Len(left_cols) # Len(right_cols)
    THEN Err("left_keys and right_keys were not the same length")
    ELSE AndThen(Collect([j \in 1..Len(left_cols) |->
                     join_key_pair(self, right, left_cols[j], right_cols[j])[1]]),
                 LAMBDA left_keys :
         AndThen(Collect([j \in 1..Len(left_cols) |->
                     join_key_pair(self, right, left_cols[j], right_cols[j])[2]]),
                 LAMBDA right_keys :
         AndThen(build_join_schema(plan_schema(self), plan_schema(right), join_type),
                 LAMBDA join_schema :
             Ok(from(Join(self, right,
                          [j \in 1..Len(left_keys) |-> <<left_keys[j], right_keys[j]>>],
                          join_type, "On", join_schema, null_equals_null))))))

join(self, right, join_type, left_cols, right_cols) ==
    join_detailed(self, right, join_type, left_cols, right_cols, FALSE)

join_using(self, right, join_type, using_keys) ==
    AndThen(Collect([j \in 1..Len(using_keys) |-> normalize(self, using_keys[j])]),
            LAMBDA left_keys :
    AndThen(Collect([j \in 1..Len(using_keys) |-> normalize(right, using_keys[j])]),
            LAMBDA right_keys :
    AndThen(build_join_schema(plan_schema(self), plan_schema(right), join_type),
            LAMBDA join_schema :
        Ok(from(Join(self, right,
                     [j \in 1..Len(left_keys) |-> <<left_keys[j], right_keys[j]>>],
                     join_type, "Using", join_schema, FALSE))))))

union(self, p) == union_with_alias(self, p, None)

\* rewrite_sort_cols_by_aggs, for sort keys over a column: below any Projections, a
\* key that normalizes to a group or aggregate expression of an Aggregate becomes
\* that expression's column; any other key is left as written
RECURSIVE rewrite_sort_col_by_aggs(_, _)
rewrite_sort_col_by_aggs(x, p) ==
    CASE p.node = "Projection" -> rewrite_sort_col_by_aggs(x, p.input)
      [] p.node = "Aggregate" /\ x.e = "Column" ->
            OrElse(normalize_col(x, p),
                   LAMBDA normalized :
                       IF \E j \in 1..Len(p.aggr_expr \o p.group_expr) :
                             (p.aggr_expr \o p.group_expr)[j] = normalized
                       THEN AndThen(to_field(normalized, plan_schema(p.input)),
                                    LAMBDA f : Ok(qualified_column(f)))
                       ELSE Ok(x),
                   Ok(x))
      [] OTHER -> Ok(x)

rewrite_sort_cols_by_aggs(exprs, p) ==
    Collect([j \in 1..Len(exprs) |->
                IF exprs[j].e = "Sort"
                THEN AndThen(rewrite_sort_col_by_aggs(exprs[j].expr, p),
                             LAMBDA r : Ok([exprs[j] EXCEPT !.expr = r]))
                ELSE Ok(exprs[j])])

ProjectionTakesMissingMutant(curr_plan, missing_cols) == FALSE
\* the guard of the Projection arm: the node is a Projection whose input has every
\* missing column
ProjectionTakesMissing(curr_plan, missing_cols) ==
    /\ curr_plan.node = "Projection"
    /\ \A j \in 1..Len(missing_cols) :
          IsOk(field_from_column(plan_schema(curr_plan.input), missing_cols[j]))

RECURSIVE add_missing_columns(_, _)
add_missing_columns(curr_plan, missing_cols) ==
    IF ProjectionTakesMissing(curr_plan, missing_cols)
    THEN AndThen(normalize_cols(missing_cols, curr_plan.input), LAMBDA missing_exprs :
         AndThen(exprlist_to_fields(curr_plan.expr \o missing_exprs, curr_plan.input),
                 LAMBDA fields :
         AndThen(new_with_metadata(fields, plan_schema(curr_plan.input).metadata),
                 LAMBDA new_schema :
             Ok(Projection(curr_plan.expr \o missing_exprs, curr_plan.input, new_schema,
                           curr_plan.alias)))))
    ELSE AndThen(Collect([j \in 1..Len(plan_inputs(curr_plan)) |->
                     add_missing_columns(plan_inputs(curr_plan)[j], missing_cols)]),
                 LAMBDA new_inputs :
                     from_plan(curr_plan, plan_expressions(curr_plan), new_inputs))

\* the sort columns the plan's output schema cannot resolve, one key after another
MissingCols(exprs, schema) ==
    SelectSeq(columns_of_all(exprs), LAMBDA c : ~IsOk(field_from_column(schema, c)))

sort(self, sort_exprs) ==
    AndThen(rewrite_sort_cols_by_aggs(sort_exprs, self), LAMBDA exprs :
        IF Len(MissingCols(exprs, plan_schema(self))) = 0
        THEN AndThen(normalize_cols(exprs, self), LAMBDA xs : Ok(from(Sort(xs, self))))
        ELSE AndThen(add_missing_columns(self, MissingCols(exprs, plan_schema(self))),
                     LAMBDA p :
             AndThen(normalize_cols(exprs, p), LAMBDA xs :
             AndThen(exprlist_to_fields(schema_columns(plan_schema(self)), self),
                     LAMBDA fields :
             AndThen(new_with_metadata(fields, plan_schema(self).metadata),
                     LAMBDA new_schema :
                 Ok(from(Projection(schema_columns(plan_schema(self)), Sort(xs, p),
                                    new_schema, None))))))))

\* LogicalPlanBuilder::build
build(self) == Ok(self)

\* generate_sort_key: the partition keys as ascending sort expressions, then the order
\* keys, each once
generate_sort_key(partition_by, order_by) ==
    Dedup([j \in 1..Len(partition_by) |-> SortExpr(partition_by[j], TRUE, TRUE)] \o order_by)

\* group_window_expr_by_sort_keys: the window expressions grouped by sort key, groups
\* in the order their keys first appear
RECURSIVE group_window_expr_by_sort_keys(_)
group_window_expr_by_sort_keys(window_expr) ==
    IF Len(window_expr) = 0 THEN Ok(<<>>)
    ELSE LET x == window_expr[Len(window_expr)] IN
         AndThen(group_window_expr_by_sort_keys(SubSeq(window_expr, 1, Len(window_expr) - 1)),
                 LAMBDA result :
             IF x.e # "WindowFunction" THEN Err("Impossibly got non-window expr")
             ELSE IF \E g \in 1..Len(result) :
                        result[g].key = generate_sort_key(x.partition_by, x.order_by)
                  THEN Ok([g \in 1..Len(result) |->
                             IF result[g].key = generate_sort_key(x.partition_by, x.order_by)
                             THEN [result[g] EXCEPT !.exprs = @ \o <<x>>]
                             ELSE result[g]])
                  ELSE Ok(result \o <<[key |-> generate_sort_key(x.partition_by, x.order_by),
                                       exprs |-> <<x>>]>>))

\* groups.sort_by(key length): a stable sort, groups of length `len` and more from
\* `len` on
RECURSIVE sort_by_key_len(_, _)
sort_by_key_len(groups, len) ==
    IF \A g \in 1..Len(groups) : Len(groups[g].key) < len THEN <<>>
    ELSE SelectSeq(groups, LAMBDA g : Len(g.key) = len) \o sort_by_key_len(groups, len + 1)
reverse(xs) == [j \in 1..Len(xs) |-> xs[Len(xs) + 1 - j]]

window_group_orderMutant(groups) == reverse(sort_by_key_len(reverse(groups), 0))
\* the order in which window_plan applies the groups
window_group_order(groups) == reverse(sort_by_key_len(groups, 0))

\* the loop of window_plan over the groups from position i on
RECURSIVE window_groups(_, _, _)
window_groups(p, groups, i) ==
    IF i > Len(groups) THEN Ok(p)
    ELSE AndThen(window(from(p), groups[i].exprs), LAMBDA b :
         AndThen(build(b), LAMBDA next : window_groups(next, groups, i + 1)))

window_plan(input, window_exprs) ==
    AndThen(group_window_expr_by_sort_keys(window_exprs),
            LAMBDA groups : window_groups(input, window_group_order(groups), 1))

\* intersect_or_except: the keys pair the fields of the two schemas by position, as
\* bare names, up to the shorter schema
intersect_or_except(left_plan, right_plan, join_type, is_all) ==
    LET ls == plan_schema(left_plan).fields
        rs == plan_schema(right_plan).fields
        k == IF Len(ls) <= Len(rs) THEN Len(ls) ELSE Len(rs)
        left_keys == [j \in 1..k |-> Col(None, ls[j].name)]
        right_keys == [j \in 1..k |-> Col(None, rs[j].name)]
    IN  IF is_all
        THEN AndThen(join_detailed(from(left_plan), right_plan, join_type,
                                   left_keys, right_keys, TRUE),
                     LAMBDA b : build(b))
        ELSE AndThen(distinct(from(left_plan)), LAMBDA d :
             AndThen(join_detailed(d, right_plan, join_type, left_keys, right_keys, TRUE),
                     LAMBDA b : build(b)))

intersect(left_plan, right_plan, is_all) ==
    intersect_or_except(left_plan, right_plan, "Semi", is_all)

except(left_plan, right_plan, is_all) ==
    intersect_or_except(left_plan, right_plan, "Anti", is_all)

(***************************************************************************)
(* The scalar layer as a state machine: a caller holding two scalars and   *)
(* an array applies the public operations of ScalarValue.                  *)
(***************************************************************************)
MaxSize == 2
MaxValue == 1

UTC == Some("UTC")
StructFields == <<Field("i", DT("Int32"), TRUE), Field("s", DT("Utf8"), TRUE)>>

\* the scalars a caller may hold: every family of variants, valid and typed-null
Scalars ==
    << Simple("Boolean", Some(TRUE)), Simple("Boolean", None),
       Simple("Int32", Some(1)), Simple("Int32", None), Simple("Int64", Some(1)),
       Simple("Float64", Some("NaN")), Simple("Float64", Some("-NaN")),
       Simple("Float64", Some("+0.0")), Simple("Float64", Some("-0.0")),
       Simple("Float64", Some("1.5")), Simple("Float64", None),
       Simple("Utf8", Some("a")), Simple("Utf8", None),
       Simple("Binary", Some("x")), Simple("Binary", None),
       Simple("Date32", Some(1)),
       Decimal128(Some(1), 10, 2), Decimal128(Some(1), 10, 3), Decimal128(None, 10, 2),
       Timestamp("TimestampSecond", Some(1), None),
       Timestamp("TimestampSecond", Some(1), UTC),
       Timestamp("TimestampMillisecond", Some(1), None),
       Timestamp("TimestampMillisecond", None, UTC),
       Simple("IntervalDayTime", Some(1)), Simple("IntervalYearMonth", None),
       SList(Some(<<Simple("Int32", Some(1)), Simple("Int32", None)>>), DT("Int32")),
       SList(None, DT("Int32")),
       SList(Some(<<Simple("Utf8", Some("a"))>>), DT("Utf8")),
       SList(Some(<<Timestamp("TimestampMillisecond", Some(1), None)>>),
             DTTimestamp("Millisecond", None)),
       SList(Some(<<Timestamp("TimestampSecond", Some(1), UTC)>>),
             DTTimestamp("Second", UTC)),
       SList(Some(<<Simple("Date32", Some(1))>>), DT("Date32")),
       SList(Some(<<>>), DT("Date32")),
       SStruct(Some(<<Simple("Int32", Some(1)), Simple("Utf8", Some("a"))>>), StructFields),
       SStruct(None, StructFields),
       SNull >>

\* arrays a caller may hand to the row operations, each with a valid and a null slot
Arrays ==
    << Arr(DT("Int32"), <<Some(1), None>>),
       Arr(DT("Float64"), <<Some("NaN"), None>>),
       Arr(DT("Utf8"), <<Some("a"), None>>),
       Arr(DT("Binary"), <<Some("x"), None>>),
       Arr(DTDecimal(10, 2), <<Some(1), None>>),
       Arr(DTTimestamp("Second", UTC), <<Some(1), None>>),
       Arr(DTInterval("DayTime"), <<Some(1), None>>),
       Arr(DTList(DT("Int32")), <<Some(Arr(DT("Int32"), <<Some(1), None>>)), None>>),
       ArrStruct(DTStruct(StructFields), <<TRUE, FALSE>>,
                 <<Arr(DT("Int32"), <<Some(1), None>>), Arr(DT("Utf8"), <<Some("a"), None>>)>>),
       ArrDict(DTDictionary(DT("Int32"), DT("Utf8")), <<Some(0), None>>,
               Arr(DT("Utf8"), <<Some("a")>>)),
       Arr(DTFixedSizeList(DT("Int32"), 2),
           <<Some(Arr(DT("Int32"), <<Some(1), None>>)), None>>),
       Arr(DT("Null"), <<None, None>>) >>

NoCall == [name |-> "none"]
NoPlan == [node |-> "none"]
PlanIdle ==
    /\ plan = NoPlan /\ other = NoPlan /\ call = NoCall /\ ret = NoCall /\ steps = 0
    /\ built = NoCall

InitScalar ==
    /\ \E i \in 1..Len(Scalars) : a = Scalars[i]
    /\ n \in 1..MaxSize
    /\ op = "start"
    /\ arr = Err("no array")
    /\ idx = 0
    /\ out = Err("no result")
    /\ PlanIdle

\* arr := self.to_array_of_size(n)
ToArrayOfSize ==
    /\ op' = "to_array_of_size"
    /\ arr' = to_array_of_size(a, n)
    /\ out' = arr'
    /\ UNCHANGED <<a, n, idx, planVars>>

\* the caller obtains an array from elsewhere
TakeArray ==
    /\ \E j \in 1..Len(Arrays) : arr' = Ok(Arrays[j])
    /\ op' = "take_array"
    /\ out' = arr'
    /\ UNCHANGED <<a, n, idx, planVars>>

\* out := ScalarValue::try_from_array(&arr, i)
TryFromArray ==
    /\ IsOk(arr)
    /\ \E i \in 0..(ArrLen(arr.val) - 1) :
          /\ idx' = i
          /\ out' = try_from_array(arr.val, i)
    /\ op' = "try_from_array"
    /\ UNCHANGED <<a, n, arr, planVars>>

\* out := self.eq_array(&arr, i), next to the computation it is documented to equal
EqArray ==
    /\ IsOk(arr)
    /\ \E i \in 0..(ArrLen(arr.val) - 1) :
          /\ idx' = i
          /\ out' = [eq |-> eq_array(a, arr.val, i), ref |-> eq_array_reference(a, arr.val, i)]
    /\ op' = "eq_array"
    /\ UNCHANGED <<a, n, arr, planVars>>

NextScalarArray == ToArrayOfSize \/ TakeArray \/ TryFromArray \/ EqArray

\* scalars converted to arrays and rows of arrays read back or compared
SpecScalarArray == InitScalar /\ [][NextScalarArray]_vars

\* out := (self == b, the hasher input of self, the hasher input of b)
HashBoth ==
    /\ \E j \in 1..Len(Scalars) :
          out' = [b |-> Scalars[j], eq |-> ScalarEq(a, Scalars[j]),
                  ha |-> HashSeq(a), hb |-> HashSeq(Scalars[j])]
    /\ op' = "hash"
    /\ UNCHANGED <<a, n, arr, idx, planVars>>

DecimalPrecisions ==
    0..MaxValue \cup (DECIMAL_MAX_PRECISION - 1)..(DECIMAL_MAX_PRECISION + MaxValue)

\* out := ScalarValue::try_new_decimal128(v, p, s)
NewDecimal ==
    /\ \E v \in -MaxValue..MaxValue, p \in DecimalPrecisions, s \in DecimalPrecisions :
          out' = [v |-> v, p |-> p, s |-> s, res |-> try_new_decimal128(v, p, s)]
    /\ op' = "try_new_decimal128"
    /\ UNCHANGED <<a, n, arr, idx, planVars>>

NextScalarValue == HashBoth \/ NewDecimal

\* scalars compared, hashed and constructed
SpecScalarValue == InitScalar /\ [][NextScalarValue]_vars

(***************************************************************************)
(* The plan layer as a state machine: a caller holds a builder `self`      *)
(* (its plan is `plan`) and a second plan `other`, calls the builder's     *)
(* methods, and may go on with a builder a call returned.                  *)
(***************************************************************************)
MaxSteps == 1

Tables == {"t1", "t2"}
\* the arrow schema of the table provider registered under a name
ProviderSchema(table_name) ==
    DFSchema(<<DFField(None, "a", "Int32", FALSE), DFField(None, "b", "Int32", TRUE)>>,
             IF table_name = "t2" THEN {"owner"} ELSE {})

One == Literal(Simple("Int32", Some(1)))
ColA == Col(None, "a")
ColB == Col(None, "b")

\* the builders a caller starts from: a scan, an empty relation, a VALUES list
StartBuilders ==
    {scan_with_filters(t, ProviderSchema(t), None) : t \in Tables}
        \cup {empty(FALSE), values(<<<<One, Literal(SNull)>>, <<One, One>>>>)}

ProjectArgs ==
    {<<ColA>>, <<ColA, ColA>>, <<Alias(ColA, "b")>>, <<Col(Some("t1"), "a"), Col(Some("t2"), "a")>>}
SortArgs ==
    {<<SortExpr(ColB, TRUE, FALSE)>>,
     <<SortExpr(ColB, TRUE, FALSE), SortExpr(ColB, FALSE, FALSE)>>,
     <<SortExpr(Col(Some("t1"), "b"), TRUE, FALSE)>>}
AggregateArgs ==
    {<<(<<ColA>>), (<<AggregateFunction("SUM", <<ColB>>)>>)>>,
     <<(<<ColA>>), (<<ColA>>)>>}
WindowArgs ==
    {<<WindowFunction("SUM", <<ColB>>)>>,
     <<WindowFunction("SUM", <<ColB>>), WindowFunction("SUM", <<ColB>>)>>}
Partitionings ==
    {[scheme |-> "RoundRobinBatch", n |-> 2], [scheme |-> "Hash", expr |-> <<ColA>>, n |-> 2]}

\* the receiver after a call: every method borrows `self` and returns a new builder
SelfAfterCallMutant(self, result) == IF IsOk(result) THEN result.val ELSE self
SelfAfterCall(self, result) == self

InitPlan ==
    /\ op = "start" /\ a = SNull /\ n = 1 /\ arr = Err("no array") /\ idx = 0
    /\ out = Err("no result")
    /\ \E b \in StartBuilders :
          /\ IsOk(b)
          /\ plan = b.val
          /\ ret = b
          /\ built = build(b.val)
    /\ other = scan_with_filters("t2", ProviderSchema("t2"), None).val
    /\ call = [name |-> "new"]
    /\ steps = 0

\* the call `c` was made on `self` and returned `r`
Called(c, r) ==
    /\ call' = c
    /\ ret' = r
    /\ plan' = SelfAfterCall(plan, r)
    /\ UNCHANGED <<other, steps, built, scalarVars>>

CallProject ==
    \E xs \in ProjectArgs, al \in {None, Some("x")} :
        Called([name |-> "project", expr |-> xs, alias |-> al],
               project_with_alias(plan, xs, al))

CallFilter ==
    Called([name |-> "filter"], filter(plan, BinaryExpr(ColA, "=", One)))

CallLimit == Called([name |-> "limit"], limit(plan, 1))

CallAlias == Called([name |-> "alias"], alias(plan, "x"))

CallSort ==
    \E xs \in SortArgs : Called([name |-> "sort", expr |-> xs], sort(plan, xs))

CallUnion == Called([name |-> "union"], union(plan, other))

CallDistinct == Called([name |-> "distinct"], distinct(plan))

\* the key lists a caller hands to join: in either order, qualified or bare, with a
\* qualifier neither input knows, and of unequal lengths
JoinKeys ==
    {<<(<<Col(Some("t1"), "a")>>), (<<Col(Some("t2"), "a")>>)>>,
     <<(<<Col(Some("t2"), "a")>>), (<<Col(Some("t1"), "a")>>)>>,
     <<(<<ColA>>), (<<ColA>>)>>,
     <<(<<Col(Some("t2"), "a")>>), (<<ColB>>)>>,
     <<(<<Col(Some("x"), "a")>>), (<<Col(Some("t2"), "a")>>)>>,
     <<(<<Col(Some("t1"), "a"), Col(Some("t1"), "b")>>), (<<Col(Some("t2"), "a")>>)>>}

CallJoin ==
    \E using \in BOOLEAN, keys \in JoinKeys :
        Called([name |-> "join", using |-> using, keys |-> keys],
               IF using THEN join_using(plan, other, "Inner", keys[1])
               ELSE join(plan, other, "Inner", keys[1], keys[2]))

CallCrossJoin == Called([name |-> "cross_join"], cross_join(plan, other))


CallRepartition ==
    \E ps \in Partitionings : Called([name |-> "repartition"], repartition(plan, ps))

CallWindow ==
    \E xs \in WindowArgs : Called([name |-> "window", expr |-> xs], window(plan, xs))

CallAggregate ==
    \E xs \in AggregateArgs :
        Called([name |-> "aggregate", group |-> xs[1], aggr |-> xs[2]],
               aggregate(plan, xs[1], xs[2]))

CallExplain ==
    \E analyze \in BOOLEAN :
        Called([name |-> "explain", analyze |-> analyze], explain(plan, FALSE, analyze))

\* an optimizer pass rebuilds the plan, or a subquery over it, from its own parts
FromPlan ==
    \E p \in {plan, Subquery(plan)} :
        Called([name |-> "from_plan", p |-> p],
               from_plan(p, plan_expressions(p), plan_inputs(p)))

\* the caller goes on with the builder the last call returned
Adopt ==
    /\ steps < MaxSteps
    /\ call.name \notin {"new", "adopt", "keep"}
    /\ IsOk(ret)
    /\ plan' = ret.val
    /\ built' = build(ret.val)
    /\ call' = [name |-> "adopt"]
    /\ steps' = steps + 1
    /\ UNCHANGED <<other, ret, scalarVars>>

\* the caller keeps the plan the last call returned as an operand for later
Keep ==
    /\ steps < MaxSteps
    /\ call.name \notin {"new", "adopt", "keep"}
    /\ IsOk(ret)
    /\ other' = ret.val
    /\ call' = [name |-> "keep"]
    /\ steps' = steps + 1
    /\ UNCHANGED <<plan, built, ret, scalarVars>>

NextPlan ==
    \/ CallProject \/ CallFilter \/ CallLimit \/ CallAlias \/ CallSort \/ CallUnion
    \/ CallDistinct \/ CallJoin \/ CallCrossJoin \/ CallRepartition \/ CallWindow
    \/ CallAggregate \/ CallExplain \/ FromPlan \/ Adopt \/ Keep

SpecPlan == InitPlan /\ [][NextPlan]_vars

(***************************************************************************)
(* The planner as a state machine: holding two plans it has built, `plan`  *)
(* and `other`, it calls the builder's plan-level functions on them.       *)
(***************************************************************************)
ScanT1 == scan_with_filters("t1", ProviderSchema("t1"), None).val
ScanT2 == scan_with_filters("t2", ProviderSchema("t2"), None).val
\* SELECT a FROM t1
ProjA == project(ScanT1, <<ColA>>).val
\* SELECT * FROM t1 WHERE a = 1
FilterA == filter(ScanT1, BinaryExpr(ColA, "=", One)).val
\* SELECT SUM(b) OVER (), a, b FROM t1
WindowB == window(ScanT1, <<WindowFunction("SUM", <<ColB>>)>>).val
\* SELECT a, SUM(b) FROM t1 GROUP BY a
AggregateA == aggregate(ScanT1, <<ColA>>, <<AggregateFunction("SUM", <<ColB>>)>>).val
\* SELECT * FROM t1 JOIN t2 ON t1.a = t2.a
JoinT1T2 == join(ScanT1, ScanT2, "Inner", <<Col(Some("t1"), "a")>>, <<Col(Some("t2"), "a")>>).val
\* SELECT a FROM (SELECT a, b FROM t1), SELECT a FROM (SELECT a FROM t1)
ProjAOverAB == project(project(ScanT1, <<ColA, ColB>>).val, <<ColA>>).val
ProjAOverA == project(ProjA, <<ColA>>).val
\* a Filter, an Aggregate and a Window over SELECT a FROM t1
FilterOverProjA == filter(ProjA, BinaryExpr(ColA, "=", One)).val
AggregateOverProjA == aggregate(ProjA, <<ColA>>, <<>>).val
WindowOverProjA == window(ProjA, <<WindowFunction("SUM", <<ColA>>)>>).val
\* (SELECT a FROM t1) JOIN (SELECT a FROM t2) ON t1.a = t2.a
JoinOfProjs ==
    join(ProjA, project(ScanT2, <<ColA>>).val, "Inner",
         <<Col(Some("t1"), "a")>>, <<Col(Some("t2"), "a")>>).val
\* SELECT 1, a FROM t2, and t1 UNION ALL t2
ProjOneA == project(ScanT2, <<One, ColA>>).val
UnionT1T2 == union(ScanT1, ScanT2).val
PlannerPlans ==
    {ScanT1, ScanT2, ProjA, empty(FALSE).val, FilterA, WindowB, AggregateA, JoinT1T2,
     ProjAOverAB, ProjAOverA, FilterOverProjA, AggregateOverProjA, WindowOverProjA,
     JoinOfProjs, ProjOneA, UnionT1T2}
PlannerOthers == {ScanT2, ProjA, ProjOneA, UnionT1T2}

InitPlanner ==
    /\ op = "start" /\ a = SNull /\ n = 1 /\ arr = Err("no array") /\ idx = 0
    /\ out = Err("no result")
    /\ plan \in PlannerPlans
    /\ other \in PlannerOthers
    /\ built = build(plan)
    /\ ret = Ok(plan)
    /\ call = [name |-> "new"]
    /\ steps = 0

\* the planner's INTERSECT [ALL] / EXCEPT [ALL] of `plan` and `other`
CallIntersectOrExcept ==
    \E is_except \in BOOLEAN, is_all \in BOOLEAN :
        Called([name |-> "intersect_or_except", is_except |-> is_except, is_all |-> is_all],
               IF is_except THEN except(plan, other, is_all)
               ELSE intersect(plan, other, is_all))

\* window expressions over the empty window, one partition key, one order key, and
\* both; WindowPlanArgs are the lists a planner hands to window_plan
WinOver(fun, partition_by, order_by) ==
    [WindowFunction(fun, <<ColB>>) EXCEPT !.partition_by = partition_by,
                                          !.order_by = order_by]
WinEmpty == WinOver("COUNT", <<>>, <<>>)
WinPartA == WinOver("SUM", <<ColA>>, <<>>)
WinPartA2 == WinOver("AVG", <<ColA>>, <<>>)
WinOrdB == WinOver("MAX", <<>>, <<SortExpr(ColB, TRUE, FALSE)>>)
WinPartAOrdB == WinOver("MIN", <<ColA>>, <<SortExpr(ColB, TRUE, FALSE)>>)
WindowPlanArgs ==
    {<<WinPartA, WinOrdB>>, <<WinOrdB, WinPartA>>, <<WinEmpty, WinPartAOrdB, WinPartA>>,
     <<WinPartA, WinOrdB, WinPartA2>>, <<WinPartA, WinPartAOrdB, WinOrdB>>, <<WinEmpty>>,
     <<WinPartA, ColA>>}

CallWindowPlan ==
    \E xs \in WindowPlanArgs :
        Called([name |-> "window_plan", expr |-> xs], window_plan(plan, xs))

\* an optimizer pass rebuilds `plan` from expression and input lists of its own making
CallFromPlanWith ==
    \E expr \in {<<>>, plan_expressions(plan), <<ColA>>},
       inputs \in {<<>>, plan_inputs(plan), <<other>>} :
        Called([name |-> "from_plan", expr |-> expr, inputs |-> inputs],
               from_plan(plan, expr, inputs))

\* the planner's UNION ALL of `plan` and `other`, with or without an alias
CallUnionWithAlias ==
    \E al \in {None, Some("x")} :
        Called([name |-> "union_with_alias", alias |-> al],
               union_with_alias(plan, other, al))

NextPlanner ==
    \/ CallIntersectOrExcept \/ CallWindowPlan \/ CallFromPlanWith \/ CallSort
    \/ CallUnionWithAlias

SpecPlanner == InitPlanner /\ [][NextPlanner]_vars

(***************************************************************************)
(* An optimizer rule as a state machine: holding an expression, it takes   *)
(* the expression's children, or children of its own making in their      *)
(* place, and builds the expression again from them.                       *)
(***************************************************************************)
RewriteExprs ==
    {ColA, One,
     BinaryExpr(ColA, "=", One), BinaryExpr(BinaryExpr(ColA, "=", One), "AND", ColB),
     IsNullExpr(ColA), [IsNullExpr(ColB) EXCEPT !.e = "IsNotNull"],
     Not(ColA), [Not(ColB) EXCEPT !.e = "Negative"],
     Cast(ColA, "Int64"), [Cast(ColB, "Int64") EXCEPT !.e = "TryCast"],
     Alias(ColA, "x"), SortExpr(ColA, TRUE, FALSE), GetIndexedField(ColA, One.v),
     ScalarFunction("abs", <<ColA>>), [ScalarFunction("f", <<ColA, ColB>>) EXCEPT !.e = "ScalarUDF"],
     AggregateFunction("SUM", <<ColB>>),
     [ScalarFunction("g", <<ColB>>) EXCEPT !.e = "AggregateUDF"],
     GroupingSet("Rollup", <<ColA, ColB>>), GroupingSet("Cube", <<ColA>>),
     WinEmpty, WinPartA, WinPartAOrdB,
     Case(None, <<(<<ColA, One>>)>>, None),
     Case(None, <<(<<ColA, One>>)>>, Some(ColB)),
     Case(Some(ColA), <<(<<One, ColB>>), (<<ColB, One>>)>>, Some(One)),
     Between(ColA, FALSE, One, ColB), Between(ColA, TRUE, One, ColB),
     InList(ColA, <<One>>, FALSE), InList(ColA, <<One, ColB>>, TRUE),
     InSubquery(ColA, ScanT2, FALSE), Exists(ScanT2, FALSE)}

Markers ==
    {lit(CASE_EXPR_MARKER), lit(CASE_ELSE_MARKER), lit(WINDOW_PARTITION_MARKER),
     lit(WINDOW_SORT_MARKER)}
\* the children of x with every child but the markers replaced by r
ChildrenReplaced(x, r) ==
    [i \in 1..Len(expr_sub_expressions(x).val) |->
        IF expr_sub_expressions(x).val[i] \in Markers THEN expr_sub_expressions(x).val[i]
        ELSE r]

InitRewrite ==
    /\ op = "start" /\ a = SNull /\ n = 1 /\ arr = Err("no array") /\ idx = 0
    /\ out = Err("no result")
    /\ plan = NoPlan /\ other = NoPlan /\ built = NoCall /\ steps = 0
    /\ ret = Err("no result")
    /\ \E x \in RewriteExprs : call = [name |-> "new", expr |-> x, expressions |-> <<>>]

\* ret := rewrite_expression(x, expr_sub_expressions(x)?)
RewriteSame ==
    /\ IsOk(expr_sub_expressions(call.expr))
    /\ call' = [call EXCEPT !.name = "rewrite_expression",
                            !.expressions = expr_sub_expressions(call.expr).val]
    /\ ret' = rewrite_expression(call.expr, expr_sub_expressions(call.expr).val)
    /\ UNCHANGED <<plan, other, steps, built, scalarVars>>

\* ret := rewrite_expression(x, cs) for children cs of the rule's making
RewriteWith ==
    /\ IsOk(expr_sub_expressions(call.expr))
    /\ \E r \in {ColA, ColB, One} :
          /\ call' = [call EXCEPT !.name = "rewrite_expression",
                                  !.expressions = ChildrenReplaced(call.expr, r)]
          /\ ret' = rewrite_expression(call.expr, ChildrenReplaced(call.expr, r))
    /\ UNCHANGED <<plan, other, steps, built, scalarVars>>

NextRewrite == RewriteSame \/ RewriteWith

SpecRewrite == InitRewrite /\ [][NextRewrite]_vars

(***************************************************************************)
(* LogicalPlanBuilder::values as a state machine: a caller holding a list  *)
(* of rows of literals asks for the VALUES relation over it.               *)
(***************************************************************************)
MaxRows == 2
MaxCols == 2

ValuesCells == {One, Literal(Simple("Binary", Some("x"))), Literal(SNull)}
ValuesRows == UNION {[1..k -> ValuesCells] : k \in 0..MaxCols}

InitValues ==
    /\ op = "start" /\ a = SNull /\ n = 1 /\ arr = Err("no array") /\ idx = 0
    /\ out = Err("no result")
    /\ plan = NoPlan /\ other = NoPlan /\ built = NoCall /\ steps = 0
    /\ ret = Err("no result")
    /\ \E k \in 0..MaxRows : \E rows \in [1..k -> ValuesRows] :
          call = [name |-> "new", rows |-> rows]

\* ret := LogicalPlanBuilder::values(rows)
CallValues ==
    /\ call.name = "new"
    /\ call' = [call EXCEPT !.name = "values"]
    /\ ret' = values(call.rows)
    /\ UNCHANGED <<plan, other, steps, built, scalarVars>>

NextValues == CallValues

SpecValues == InitValues /\ [][NextValues]_vars

(***************************************************************************)
(* The unary and binary operations of ScalarValue as a state machine: a    *)
(* caller holding a scalar asks for its nullness, its negation, the typed  *)
(* null of its type, its ordering against another scalar, and builds       *)
(* arrays from it.                                                         *)
(***************************************************************************)
\* scalars Scalars does not hold: the remaining widths, their minimum values and the
\* remaining typed nulls
OpScalars ==
    Scalars \o
    << Simple("Int8", Some(1)), Simple("Int8", Some(-128)), Simple("Int8", None),
       Simple("Int16", Some(-32768)), Simple("Int16", None),
       Simple("Int32", Some(-2147483647 - 1)), Simple("Int64", None),
       Simple("Float32", Some("1.5")), Simple("Float32", None),
       Simple("UInt8", Some(1)), Simple("UInt8", None),
       Simple("LargeBinary", None), Simple("LargeUtf8", None),
       Simple("IntervalDayTime", None), Simple("IntervalMonthDayNano", None),
       Timestamp("TimestampMicrosecond", None, None),
       SList(None, DTTimestamp("Millisecond", None)),
       SList(None, DT("Boolean")), SList(None, DT("Binary")),
       Decimal128(Some(-1), 10, 2) >>

InitOps ==
    /\ \E i \in 1..Len(OpScalars) : a = OpScalars[i]
    /\ n \in 0..MaxSize
    /\ op = "start"
    /\ arr = Err("no array")
    /\ idx = 0
    /\ out = Err("no result")
    /\ PlanIdle

\* out := self.is_null()
IsNull ==
    /\ out' = [res |-> is_null(a)]
    /\ op' = "is_null"
    /\ UNCHANGED <<a, n, arr, idx, planVars>>

\* out := self.arithmetic_negate() and the negation of that, in a build with or
\* without overflow checks
Negate ==
    /\ \E overflow_checks \in BOOLEAN :
          out' = [checks |-> overflow_checks,
                  once |-> arithmetic_negate(a, overflow_checks),
                  twice |-> AndThen(arithmetic_negate(a, overflow_checks),
                                    LAMBDA y : arithmetic_negate(y, overflow_checks))]
    /\ op' = "arithmetic_negate"
    /\ UNCHANGED <<a, n, arr, idx, planVars>>

\* out := ScalarValue::try_from(&t) for the type t of self, or for a dictionary of it
NullOf ==
    /\ \E t \in {get_datatype(a), DTDictionary(DT("Int32"), get_datatype(a))} :
          out' = [t |-> t, res |-> TryFromDataType(t)]
    /\ op' = "try_from_datatype"
    /\ UNCHANGED <<a, n, arr, idx, planVars>>

\* out := ScalarValue::iter_to_array(scalars) for no scalar, self alone, or self
\* followed by another scalar
IterToArray ==
    /\ \E scalars \in {<<>>, <<a>>} \cup {<<a, OpScalars[j]>> : j \in 1..Len(OpScalars)} :
          out' = [scalars |-> scalars, res |-> iter_to_array(scalars)]
    /\ op' = "iter_to_array"
    /\ UNCHANGED <<a, n, arr, idx, planVars>>

\* out := (self.partial_cmp(b), self == b) for another scalar b
PartialCmp ==
    /\ \E j \in 1..Len(OpScalars) :
          out' = [b |-> OpScalars[j], cmp |-> partial_cmp(a, OpScalars[j]),
                  eq |-> ScalarEq(a, OpScalars[j])]
    /\ op' = "partial_cmp"
    /\ UNCHANGED <<a, n, arr, idx, planVars>>

NextScalarOps == IsNull \/ Negate \/ NullOf \/ IterToArray \/ ToArrayOfSize \/ PartialCmp

\* scalars asked for their nullness, negation, typed null and ordering
SpecScalarOps == InitOps /\ [][NextScalarOps]_vars

(***************************************************************************)
(* Properties of the scalar layer.                                         *)
(***************************************************************************)

\* C1: converting a scalar to an array of n >= 1 rows never aborts, and reading any
\* row of that array back succeeds and yields a scalar equal to the original.
C1_RoundTrip ==
    /\ op = "to_array_of_size" => IsOk(arr)
    /\ (op = "try_from_array" /\ arr = to_array_of_size(a, n)) =>
            (IsOk(out) /\ ScalarEq(out.val, a))

\* C2: whenever try_from_array(array, i) yields a scalar, self.eq_array(array, i)
\* returns (without aborting) exactly the boolean (that scalar == self).
C2_EqArrayAgrees ==
    (op = "eq_array" /\ IsOk(out.ref)) => out.eq = out.ref

\* C3: two scalars that compare equal feed the hasher the same sequence of values.
C3_HashAgreesWithEq ==
    (op = "hash" /\ out.eq) => out.ha = out.hb

\* C3 happens: two equal timestamps that differ only in their timezone were hashed.
C3_Witness ==
    /\ op = "hash" /\ out.eq
    /\ a.tag \in TimestampTags
    /\ a.tz # out.b.tz

\* C10: try_new_decimal128(v, p, s) is an error exactly when p > 38 or s > p, and is
\* Decimal128(Some(v), p, s) otherwise.
C10_TryNewDecimal ==
    op = "try_new_decimal128" =>
        IF out.p > 38 \/ out.s > out.p
        THEN out.res.st = "err"
        ELSE out.res = Ok(Decimal128(Some(out.v), out.p, out.s))

\* C10 happens: precision 38 with scale 38 was accepted.
C10_Witness ==
    /\ op = "try_new_decimal128"
    /\ out.p = 38 /\ out.s = 38
    /\ IsOk(out.res)

(***************************************************************************)
(* Properties of the plan layer.                                           *)
(***************************************************************************)

\* the schema a node's own expressions yield against its own inputs' schemas
InferSchema(p) ==
    CASE p.node = "Projection" ->
            AndThen(exprlist_to_fields(p.expr, p.input), LAMBDA fields :
                Ok(IF IsSome(p.alias)
                   THEN replace_qualifier(DFSchema(fields, plan_schema(p.input).metadata),
                                          p.alias[1])
                   ELSE DFSchema(fields, plan_schema(p.input).metadata)))
      [] p.node = "Window" ->
            AndThen(exprlist_to_fields(p.window_expr, p.input), LAMBDA fields :
                Ok(DFSchema(fields \o plan_schema(p.input).fields,
                            plan_schema(p.input).metadata)))
      [] p.node = "Aggregate" ->
            AndThen(exprlist_to_fields(p.group_expr \o p.aggr_expr, p.input), LAMBDA fields :
                Ok(DFSchema(fields, plan_schema(p.input).metadata)))
      [] p.node = "Join" ->
            build_join_schema(plan_schema(p.left), plan_schema(p.right), p.join_type)
      [] p.node = "CrossJoin" -> schema_join(plan_schema(p.left), plan_schema(p.right))
      [] p.node = "SubqueryAlias" -> try_from_qualified_schema(p.alias, plan_schema(p.input))
      [] p.node = "Union" ->
            Ok(IF IsSome(p.alias) THEN replace_qualifier(plan_schema(p.inputs[1]), p.alias[1])
               ELSE strip_qualifiers(plan_schema(p.inputs[1])))
      [] p.node = "Values" ->
            AndThen(Collect([j \in 1..Len(p.values[1]) |->
                                expr_type(p.values[1][j], DFSchema(<<>>, {}))]),
                    LAMBDA ts :
                        Ok(DFSchema([j \in 1..Len(ts) |->
                                        DFField(None, "column" \o ToString(j), ts[j].ty, TRUE)],
                                    {})))
      [] OTHER -> Ok(plan_schema(p))

\* P1 at a node and at every node nested inside it
RECURSIVE P1Holds(_)
P1Holds(p) ==
    /\ InferSchema(p) = Ok(plan_schema(p))
    /\ \A j \in 1..Len(plan_inputs(p)) : P1Holds(plan_inputs(p)[j])

SchemaCalls ==
    {"new", "project", "filter", "sort", "aggregate", "window", "join", "cross_join",
     "alias", "union", "distinct"}

\* C4: every node of a plan a successful builder operation returns carries the schema
\* inferred from that node's expressions over its inputs' schemas.
C4_SchemaInvariant ==
    (call.name \in SchemaCalls /\ IsOk(ret)) => P1Holds(ret.val)

DistinctFields(schema) ==
    \A i, j \in 1..Len(schema.fields) :
        i < j => \/ schema.fields[i].qualifier # schema.fields[j].qualifier
                 \/ schema.fields[i].name # schema.fields[j].name

\* C5: a project (with or without alias), aggregate or window call either fails or
\* returns a node whose output fields have pairwise distinct (qualifier, name).
C5_UniqueOutputNames ==
    (call.name \in {"project", "aggregate", "window"} /\ IsOk(ret)) =>
        DistinctFields(plan_schema(ret.val))

\* some Projection of the plan has every one of the columns in its input schema
RECURSIVE HasProjectionOver(_, _)
HasProjectionOver(p, cols) ==
    \/ /\ p.node = "Projection"
       /\ \A j \in 1..Len(cols) : IsOk(field_from_column(plan_schema(p.input), cols[j]))
    \/ \E j \in 1..Len(plan_inputs(p)) : HasProjectionOver(plan_inputs(p)[j], cols)

\* C6: sort() by a column the output schema lacks but the input of a Projection below
\* has succeeds, returns Projection over Sort, and keeps the output schema.
C6_SortBackPropagation ==
    (/\ call.name = "sort"
     /\ Len(MissingCols(call.expr, plan_schema(plan))) > 0
     /\ HasProjectionOver(plan, MissingCols(call.expr, plan_schema(plan)))) =>
        /\ IsOk(ret)
        /\ ret.val.node = "Projection"
        /\ ret.val.input.node = "Sort"
        /\ plan_schema(ret.val) = plan_schema(plan)

\* the number of plans a union operand stands for
UnionLeaves(p) == IF p.node = "Union" THEN Len(p.inputs) ELSE 1

\* C7: a union() call returns one Union node, none of whose inputs is a Union, with as
\* many inputs as the non-Union plans its two operands combine.
C7_UnionFlattened ==
    (call.name = "union" /\ IsOk(ret)) =>
        /\ ret.val.node = "Union"
        /\ \A j \in 1..Len(ret.val.inputs) : ret.val.inputs[j].node # "Union"
        /\ Len(ret.val.inputs) = UnionLeaves(plan) + UnionLeaves(other)

\* C7 happens: a union was called on a builder already holding a Union, and the result
\* has three inputs.
C7_Witness ==
    /\ call.name = "union" /\ IsOk(ret)
    /\ plan.node = "Union"
    /\ Len(ret.val.inputs) = 3

PayloadAbsent(x) == x.tag = "Null" \/ IsNone(x.v)

\* C11: is_null() is true exactly for the Null scalar and for the typed variants
\* whose payload is absent.
C11_IsNull ==
    op = "is_null" => (out.res <=> PayloadAbsent(a))

NegatableKinds == {"Int8", "Int16", "Int32", "Int64", "Float32", "Float64", "Decimal128"}

\* C12: arithmetic_negate of the typed null of a negatable type returns that typed null.
C12_NegateKeepsNull ==
    (op = "arithmetic_negate" /\ a.tag \in NegatableKinds /\ IsNone(a.v)) =>
        out.once = Ok(a)

\* C13: negating a non-null numeric scalar twice returns normally and gives it back.
C13_NegateInvolution ==
    (op = "arithmetic_negate" /\ a.tag \in NegatableKinds /\ IsSome(a.v)) =>
        (IsOk(out.twice) /\ ScalarEq(out.twice.val, a))

\* C14: the typed null of the type of any scalar exists, is null and has that type; for a
\* dictionary type it is the typed null of the dictionary's value type.
C14_TypedNull ==
    op = "try_from_datatype" =>
        /\ IsOk(out.res)
        /\ PayloadAbsent(out.res.val)
        /\ get_datatype(out.res.val) = get_datatype(a)

\* C15: where try_from_array succeeds at a valid row of an array, it succeeds at a null
\* row of it too, with the typed null of the type the valid row yields.
C15_NullSlotKeepsType ==
    (op = "try_from_array" /\ IsOk(arr) /\ ~is_valid(arr.val, idx)) =>
        \A j \in 0..(ArrLen(arr.val) - 1) :
            (is_valid(arr.val, j) /\ IsOk(try_from_array(arr.val, j))) =>
                /\ IsOk(out)
                /\ PayloadAbsent(out.val)
                /\ get_datatype(out.val) = get_datatype(try_from_array(arr.val, j).val)

\* C16: iter_to_array returns an error, and neither aborts nor succeeds, when it is
\* handed no scalar or a later scalar whose type differs from the first one's.
C16_IterToArrayRejects ==
    (/\ op = "iter_to_array"
     /\ \/ Len(out.scalars) = 0
        \/ \E i \in 2..Len(out.scalars) :
              get_datatype(out.scalars[i]) # get_datatype(out.scalars[1])) =>
        out.res.st = "err"

\* C17: to_array_of_size of a typed-null scalar, for any size n >= 0, returns normally an
\* array of n rows of the scalar's type in which every row is null.
C17_TypedNullArray ==
    (op = "to_array_of_size" /\ a.tag # "Null" /\ IsNone(a.v)) =>
        /\ IsOk(arr)
        /\ ArrLen(arr.val) = n
        /\ arr.val.dt = get_datatype(a)
        /\ \A i \in 0..(n - 1) : ~is_valid(arr.val, i)

\* the type parameters of a scalar: whatever its type holds beyond the tag
TypeParams(x) ==
    CASE x.tag = "Decimal128" -> <<x.p, x.s>>
      [] x.tag \in TimestampTags -> <<x.tz>>
      [] x.tag = "List" -> <<x.ty>>
      [] x.tag = "Struct" -> <<x.fields>>
      [] OTHER -> <<>>

NativeLess(tag, x, y) ==
    CASE tag = "Boolean" -> x = FALSE /\ y = TRUE
      [] tag \in FloatTags ->
            /\ x \notin NaNs
            /\ y \in NaNs \/ (x = "-1.5" /\ y # "-1.5") \/ (x \in Zeros /\ y = "1.5")
      [] tag \in StringKinds -> x = "a" /\ y = "x"
      [] OTHER -> x < y

\* the ordering of two optional native payloads: an absent payload first
PayloadOrder(tag, v1, v2) ==
    IF IsNone(v1) \/ IsNone(v2)
    THEN IF IsNone(v1) /\ IsNone(v2) THEN "Equal" ELSE IF IsNone(v1) THEN "Less" ELSE "Greater"
    ELSE IF NativeLess(tag, v1[1], v2[1]) THEN "Less"
         ELSE IF NativeLess(tag, v2[1], v1[1]) THEN "Greater" ELSE "Equal"

\* the position that decides the ordering of two vectors: the first one whose elements
\* do not compare Equal, or one past the shorter vector
Deciding(xs, ys) ==
    CHOOSE i \in 1..(Len(xs) + 1) :
        /\ \A j \in 1..(i - 1) : j <= Len(ys) /\ partial_cmp(xs[j], ys[j]) = Some("Equal")
        /\ i > Len(xs) \/ i > Len(ys) \/ partial_cmp(xs[i], ys[i]) # Some("Equal")

\* C18: partial_cmp is None for scalars of different tags, for decimals of different
\* precision or scale, for lists of different element types and for structs of different
\* fields; for the same tag and type parameters it is the ordering of the payloads.
\* Scalars of different tags are never equal, and Null equals only Null.
C18_TagFirstOrdering ==
    op = "partial_cmp" =>
        /\ a.tag # out.b.tag => (out.cmp = None /\ ~out.eq)
        /\ (a.tag = out.b.tag /\ a.tag \in {"Decimal128", "List", "Struct"}
                /\ TypeParams(a) # TypeParams(out.b)) => out.cmp = None
        /\ (a.tag = "Null" \/ out.b.tag = "Null") => (out.eq <=> a.tag = out.b.tag)
        /\ (a.tag = out.b.tag /\ TypeParams(a) = TypeParams(out.b)) =>
              CASE a.tag = "Null" -> out.cmp = Some("Equal")
                [] a.tag \in {"List", "Struct"} ->
                      IF IsNone(a.v) \/ IsNone(out.b.v)
                      THEN out.cmp = Some(CmpInt(Len(a.v), Len(out.b.v)))
                      ELSE LET i == Deciding(a.v[1], out.b.v[1]) IN
                           IF i > Len(a.v[1]) \/ i > Len(out.b.v[1])
                           THEN out.cmp = Some(CmpInt(Len(a.v[1]), Len(out.b.v[1])))
                           ELSE out.cmp = partial_cmp(a.v[1][i], out.b.v[1][i])
                [] OTHER -> out.cmp = Some(PayloadOrder(a.tag, a.v, out.b.v))

\* C18 happens: two decimals of different scale were found incomparable, and two
\* decimals of the same precision and scale were ordered by value.
C18_Witness ==
    /\ op = "partial_cmp"
    /\ a = Decimal128(Some(-1), 10, 2)
    /\ \/ out.b = Decimal128(Some(1), 10, 3) /\ out.cmp = None
       \/ out.b = Decimal128(Some(1), 10, 2) /\ out.cmp = Some("Less")

\* the type of a cell of a VALUES list that is not the NULL literal
CellType(x) == get_datatype(x.v).k
IsNullCell(x) == x = Literal(SNull)
\* the first row of column j that holds a cell other than the NULL literal, or 0
FirstTyped(rows, j) ==
    IF \A i \in 1..Len(rows) : IsNullCell(rows[i][j]) THEN 0
    ELSE CHOOSE i \in 1..Len(rows) :
            ~IsNullCell(rows[i][j]) /\ \A k \in 1..(i - 1) : IsNullCell(rows[k][j])
\* the conditions under which values is said to fail
ValuesRejected(rows) ==
    \/ Len(rows) = 0
    \/ Len(rows[1]) = 0
    \/ \E i \in 1..Len(rows) : Len(rows[i]) # Len(rows[1])
    \/ \E j \in 1..Len(rows[1]) : \E i \in 1..Len(rows) : \E k \in 1..(i - 1) :
          /\ ~IsNullCell(rows[i][j]) /\ ~IsNullCell(rows[k][j])
          /\ CellType(rows[i][j]) # CellType(rows[k][j])

\* C19: values fails on an empty list, a first row without columns, rows of different
\* lengths, or a cell whose type differs from an earlier typed cell of its column;
\* otherwise it succeeds with nullable fields column1..columnN, each typed by the first
\* typed cell of its column, and every NULL literal replaced by the typed null of its
\* column's type.
C19_Values ==
    call.name = "values" =>
        IF ValuesRejected(call.rows) THEN ~IsOk(ret)
        ELSE /\ IsOk(ret)
             /\ ret.val.node = "Values"
             /\ Len(ret.val.schema.fields) = Len(call.rows[1])
             /\ \A j \in 1..Len(call.rows[1]) :
                   LET f == ret.val.schema.fields[j] IN
                   /\ f.name = "column" \o ToString(j)
                   /\ f.nullable
                   /\ FirstTyped(call.rows, j) # 0 =>
                         f.ty = CellType(call.rows[FirstTyped(call.rows, j)][j])
                   /\ \A i \in 1..Len(call.rows) :
                         ret.val.values[i][j] =
                            IF IsNullCell(call.rows[i][j])
                            THEN Literal(TryFromDataType(DT(f.ty)).val)
                            ELSE call.rows[i][j]

\* the column names a field of the schema: by qualifier and name, or by name when bare
IsFieldOf(c, schema) ==
    \E j \in 1..Len(schema.fields) :
        /\ schema.fields[j].name = c.name
        /\ IsSome(c.relation) => schema.fields[j].qualifier = c.relation

\* C20: a join that succeeds holds one pair per supplied key pair, the first column of
\* every pair a field of the left input's schema and the second a field of the right
\* input's schema, in whatever order or qualification the keys were supplied; key
\* lists of unequal lengths fail.
C20_JoinKeySides ==
    call.name = "join" =>
        /\ IsOk(ret) =>
              /\ Len(ret.val.on) = Len(call.keys[1])
              /\ \A j \in 1..Len(ret.val.on) :
                    /\ IsFieldOf(ret.val.on[j][1], plan_schema(plan))
                    /\ IsFieldOf(ret.val.on[j][2], plan_schema(other))
        /\ (~call.using /\ Len(call.keys[1]) # Len(call.keys[2])) => ~IsOk(ret)

(***************************************************************************)
(* Properties of set operations, windows, rewriting and sort propagation   *)
(***************************************************************************)
\* C21: intersect / except build a Semi / Anti Join with null_equals_null whose `on`
\* pairs the i-th output column of the left plan with the i-th output column of the
\* right plan, one pair per column position; the left side is wrapped in distinct()
\* exactly when is_all is false; plans of different column counts fail.
C21_IntersectExcept ==
    call.name = "intersect_or_except" =>
        LET ls == plan_schema(plan).fields
            rs == plan_schema(other).fields
        IN  /\ Len(ls) # Len(rs) => ~IsOk(ret)
            /\ IsOk(ret) =>
                  /\ ret.val.node = "Join"
                  /\ ret.val.join_type = (IF call.is_except THEN "Anti" ELSE "Semi")
                  /\ ret.val.null_equals_null
                  /\ ret.val.right = other
                  /\ ret.val.left = (IF call.is_all THEN plan ELSE distinct(plan).val)
                  /\ Len(ret.val.on) = Len(ls)
                  /\ \A i \in 1..Len(ret.val.on) :
                        /\ i <= Len(rs)
                        /\ ret.val.on[i][1].name = ls[i].name
                        /\ ret.val.on[i][2].name = rs[i].name
                        /\ IsFieldOf(ret.val.on[i][1], plan_schema(ret.val.left))
                        /\ IsFieldOf(ret.val.on[i][2], plan_schema(other))

\* the window expressions of the Window nodes stacked on `base`, lowest node first
RECURSIVE WindowsAbove(_, _)
WindowsAbove(p, base) ==
    IF p = base \/ p.node # "Window" THEN <<>>
    ELSE WindowsAbove(p.input, base) \o <<p.window_expr>>
SortKeyLen(x) == Len(generate_sort_key(x.partition_by, x.order_by))
\* the place in the supplied list of the first expression of a node's group
SuppliedAt(x) == CHOOSE k \in 1..Len(call.expr) :
                    /\ call.expr[k].fun = x.fun
                    /\ \A m \in 1..(k - 1) : call.expr[m].fun # x.fun
\* sort-key length never increases from a Window node to the one above it
KeyLenDescends(ws) ==
    \A i, j \in 1..Len(ws) : i < j => SortKeyLen(ws[i][1]) >= SortKeyLen(ws[j][1])
TiedLevels(ws) ==
    {ij \in (1..Len(ws)) \X (1..Len(ws)) :
        ij[1] < ij[2] /\ SortKeyLen(ws[ij[1]][1]) = SortKeyLen(ws[ij[2]][1])}

\* C22, as stated: the lowest Window node holds the group with the longest sort key,
\* sort-key length never increases upwards, and groups of equal sort-key length are
\* nested in their original relative order.
C22_WindowOrderStable ==
    (call.name = "window_plan" /\ IsOk(ret)) =>
        LET ws == WindowsAbove(ret.val, plan) IN
        /\ KeyLenDescends(ws)
        /\ \A ij \in TiedLevels(ws) : SuppliedAt(ws[ij[1]][1]) < SuppliedAt(ws[ij[2]][1])

\* C22, amended: the lowest Window node holds the group with the longest sort key,
\* sort-key length never increases upwards, and groups of equal sort-key length are
\* nested in the reverse of their original relative order (the later group lower).
C22_WindowOrderReversedTies ==
    (call.name = "window_plan" /\ IsOk(ret)) =>
        LET ws == WindowsAbove(ret.val, plan) IN
        /\ KeyLenDescends(ws)
        /\ \A ij \in TiedLevels(ws) : SuppliedAt(ws[ij[1]][1]) > SuppliedAt(ws[ij[2]][1])

\* C22 happens: window_plan built three Window nodes, two of them with sort keys of
\* the same length.
C22_Witness ==
    /\ call.name = "window_plan" /\ IsOk(ret)
    /\ Len(WindowsAbove(ret.val, plan)) = 3
    /\ TiedLevels(WindowsAbove(ret.val, plan)) # {}

\* the caller's lists do not fit the variant of the node
ListsDoNotFit(p, expr, inputs) ==
    \/ Len(inputs) < Len(plan_inputs(p))
    \/ p.node = "Filter" /\ Len(expr) = 0
    \/ p.node = "Window" /\ Len(expr) < Len(p.window_expr)
    \/ p.node = "Aggregate" /\ Len(expr) < Len(p.group_expr)

\* C23: from_plan on a non-leaf node with lists that do not fit the variant (fewer
\* inputs than the variant needs, no expression for Filter, fewer expressions than the
\* node's window or group expressions) returns an error value instead of aborting.
C23_FromPlanMismatchIsError ==
    (/\ call.name = "from_plan"
     /\ Len(plan_inputs(plan)) > 0
     /\ ListsDoNotFit(plan, call.expr, call.inputs)) => ret.st = "err"

\* C24: for every expression valid in a plan, building it again from its own children
\* succeeds and gives an expression equal to it.
C24_ChildrenRoundTrip ==
    (/\ call.name = "rewrite_expression"
     /\ call.expressions = expr_sub_expressions(call.expr).val) => ret = Ok(call.expr)

\* C29: for every expression with at least one child, the expression built from a list
\* of children has exactly those children.
C29_RewriteInstallsChildren ==
    (/\ call.name = "rewrite_expression"
     /\ Len(expr_sub_expressions(call.expr).val) >= 1) =>
        /\ IsOk(ret)
        /\ expr_sub_expressions(ret.val) = Ok(call.expressions)

\* the node of plan p reached by following the inputs numbered in `path`
RECURSIVE NodeAt(_, _)
NodeAt(p, path) ==
    IF Len(path) = 0 THEN p ELSE NodeAt(plan_inputs(p)[Head(path)], Tail(path))
\* the paths to the nodes of p
RECURSIVE NodePaths(_)
NodePaths(p) ==
    {<<>>} \cup UNION {{<<j>> \o q : q \in NodePaths(plan_inputs(p)[j])} :
                          j \in 1..Len(plan_inputs(p))}
IsPrefix(q, r) == Len(q) < Len(r) /\ SubSeq(r, 1, Len(q)) = q

\* the sort reached the step that appends missing columns and succeeded: the plan the
\* step returned is the input of the Sort node
SortAddedMissing ==
    /\ call.name = "sort" /\ IsOk(ret)
    /\ ret.val.node = "Projection" /\ ret.val.input.node = "Sort"
    /\ MissingCols(call.expr, plan_schema(plan)) # <<>>
    /\ MissingCols(call.expr, plan_schema(plan)) =
          MissingCols(rewrite_sort_cols_by_aggs(call.expr, plan).val, plan_schema(plan))
MissingOfCall == MissingCols(call.expr, plan_schema(plan))
\* the Projections of `plan` whose input schema has every missing column
TakingProjections ==
    {q \in NodePaths(plan) :
        /\ NodeAt(plan, q).node = "Projection"
        /\ \A j \in 1..Len(MissingOfCall) :
              IsOk(field_from_column(plan_schema(NodeAt(plan, q).input), MissingOfCall[j]))}
\* the Projections whose expression list the step changed
ExtendedProjections ==
    {q \in NodePaths(plan) :
        /\ NodeAt(plan, q).node = "Projection"
        /\ NodeAt(ret.val.input.input, q).expr # NodeAt(plan, q).expr}
\* an extended Projection holds its old expressions, then the missing columns, and a
\* schema of one field per expression
ExtendedAndRecomputed(q) ==
    LET old == NodeAt(plan, q)
        new == NodeAt(ret.val.input.input, q)
    IN  /\ Len(new.expr) = Len(old.expr) + Len(MissingOfCall)
        /\ SubSeq(new.expr, 1, Len(old.expr)) = old.expr
        /\ \A j \in 1..Len(MissingOfCall) :
              new.expr[Len(old.expr) + j].name = MissingOfCall[j].name
        /\ Ok(new.schema.fields) = exprlist_to_fields(new.expr, new.input)

\* C25, as stated: the missing sort columns are appended to exactly the lowest
\* Projection of each input path whose input schema has all of them, and its schema
\* is recomputed.
C25_AppendedAtLowest ==
    SortAddedMissing =>
        /\ ExtendedProjections =
              {q \in TakingProjections : ~\E r \in TakingProjections : IsPrefix(q, r)}
        /\ \A q \in ExtendedProjections : ExtendedAndRecomputed(q)

\* C25, amended: the missing sort columns are appended to exactly the highest
\* Projection of each input path whose input schema has all of them (the first one met
\* on the way down); no Projection above or below it is changed, and its schema is
\* recomputed from the extended expression list.
C25_AppendedAtHighest ==
    SortAddedMissing =>
        /\ ExtendedProjections =
              {q \in TakingProjections : ~\E r \in TakingProjections : IsPrefix(r, q)}
        /\ \A q \in ExtendedProjections : ExtendedAndRecomputed(q)

\* C25 happens: a sort over two stacked Projections that both could take the missing
\* column appended it to one of them.
C25_Witness ==
    /\ SortAddedMissing
    /\ \E q, r \in TakingProjections : IsPrefix(q, r)
    /\ ExtendedProjections # {}

\* the Sort node a successful sort() created: the plan itself, or the input of the
\* Projection that restores the output schema
SortNodeOf(p) == IF p.node = "Sort" THEN p ELSE p.input

\* C27: whenever sort() succeeds, every column the Sort node's expressions refer to is
\* a field of the output schema of the Sort node's input.
C27_SortColumnsResolve ==
    (call.name = "sort" /\ IsOk(ret)) =>
        \A j \in 1..Len(columns_of_all(SortNodeOf(ret.val).expr)) :
            IsOk(field_from_column(plan_schema(SortNodeOf(ret.val).input),
                                   columns_of_all(SortNodeOf(ret.val).expr)[j]))

\* C28: sort() with two sort expressions over the same missing column succeeds exactly
\* as it does with the first of them alone: the column is appended once to the lower
\* Projection, whose schema has no duplicate field.
C28_RepeatedMissingColumn ==
    (/\ call.name = "sort"
     /\ Len(call.expr) = 2
     /\ columns_of_all(<<call.expr[1]>>) = columns_of_all(<<call.expr[2]>>)
     /\ MissingCols(<<call.expr[1]>>, plan_schema(plan)) # <<>>
     /\ IsOk(sort(plan, <<call.expr[1]>>))) =>
        /\ IsOk(ret)
        /\ SortNodeOf(ret.val).input = SortNodeOf(sort(plan, <<call.expr[1]>>).val).input

\* the inputs of a union operand: those of a Union, or the operand itself
Flattened(p) == IF p.node = "Union" THEN p.inputs ELSE <<p>>
\* expression i (counted from 0) of a Projection under a union: a Column or an Alias
\* as it is, any other expression aliased column{i}
IndexAliased(x, i) ==
    IF x.e \in {"Column", "Alias"} THEN x ELSE Alias(x, "column" \o ToString(i))

\* C26: in union_with_alias every flattened input that is a Projection becomes a
\* Projection over the same input, with the same alias, the left plan's schema, and its
\* expressions index-aliased; every other input passes through unchanged; the Union's
\* schema is its first input's schema with the qualifiers stripped (no alias) or
\* replaced by the alias.
C26_UnionInputsRewritten ==
    (call.name = "union_with_alias" /\ IsOk(ret)) =>
        LET flat == Flattened(plan) \o Flattened(other) IN
        /\ ret.val.node = "Union"
        /\ ret.val.alias = call.alias
        /\ Len(ret.val.inputs) = Len(flat)
        /\ \A j \in 1..Len(flat) :
              IF flat[j].node = "Projection"
              THEN /\ ret.val.inputs[j].node = "Projection"
                   /\ ret.val.inputs[j].input = flat[j].input
                   /\ ret.val.inputs[j].alias = flat[j].alias
                   /\ ret.val.inputs[j].schema = plan_schema(plan)
                   /\ ret.val.inputs[j].expr =
                         [i \in 1..Len(flat[j].expr) |-> IndexAliased(flat[j].expr[i], i - 1)]
              ELSE ret.val.inputs[j] = flat[j]
        /\ ret.val.schema.fields =
              [i \in 1..Len(plan_schema(ret.val.inputs[1]).fields) |->
                  [plan_schema(ret.val.inputs[1]).fields[i]
                      EXCEPT !.qualifier = call.alias]]

\* C26 happens: a union took a Projection holding a literal, aliased it column0, and
\* took the inputs of a Union operand one by one.
C26_Witness ==
    /\ call.name = "union_with_alias" /\ IsOk(ret)
    /\ Len(ret.val.inputs) = 3
    /\ \E j \in 1..3 :
          /\ ret.val.inputs[j].node = "Projection"
          /\ ret.val.inputs[j].expr[1] = Alias(One, "column0")

\* two scalars that differ only in their payloads
SameTagAndParams(x, y) == x.tag = y.tag /\ TypeParams(x) = TypeParams(y)

\* C30: ordering is consistent with equality: partial_cmp(a, b) is Some(Equal) exactly
\* when a == b; and of two scalars of the same tag and type parameters the one whose
\* payload is absent orders strictly before the one whose payload is present.
C30_OrderingConsistentWithEq ==
    op = "partial_cmp" =>
        /\ (out.cmp = Some("Equal")) <=> out.eq
        /\ (SameTagAndParams(a, out.b) /\ a.tag # "Null") =>
              /\ (IsNone(a.v) /\ IsSome(out.b.v)) => out.cmp = Some("Less")
              /\ (IsSome(a.v) /\ IsNone(out.b.v)) => out.cmp = Some("Greater")

\* C30 happens: a list without payload was ordered before a list of the same element
\* type with a payload, and the two were found unequal.
C30_Witness ==
    /\ op = "partial_cmp"
    /\ a.tag = "List" /\ SameTagAndParams(a, out.b)
    /\ IsNone(a.v) /\ IsSome(out.b.v)
    /\ out.cmp = Some("Less") /\ ~out.eq

====
